---------------------------- MODULE Spec2Model ----------------------------
(***************************************************************************)
(* State-machine model of the EWS monitor front end:                       *)
(*   - the rules table    (src/src/components/UploadFrameworkTable.tsx)    *)
(*   - the events table   (src/src/pages/EventsVerified.tsx)               *)
(*   - the manual-match dialog (src/unnamed/part_004, FuzzyMatchModal)     *)
(*                                                                         *)
(* JavaScript values are encoded as tuples of strings whose first element  *)
(* is the type tag: <<"str", c1, ..., cn>> is the string c1...cn,          *)
(* <<"num", d>> a number (d = "NaN" for NaN), <<"null">>, <<"undefined">>. *)
(***************************************************************************)
EXTENDS Integers, Sequences, FiniteSets, TLC

\* ------------------------------------------------------------------ bounds
\* Most rows a table (rules table, or one partition of the events table) holds.
MaxRows == 3
\* Most user actions (clicks, keystrokes, uploads) of one session.
MaxOps == 3

\* ------------------------------------------------------- JavaScript values
Str(cs) == <<"str">> \o cs
EmptyStr == <<"str">>
Undefined == <<"undefined">>
Null == <<"null">>
NaN == <<"num", "NaN">>
Num(d) == <<"num", d>>
IsString(v) == v[1] = "str"
Chars(v) == Tail(v)

Digits == {"0", "1", "2", "3", "4", "5", "6", "7", "8", "9"}

\* String.prototype.toLowerCase, one character (the letters the model uses)
LowerChar(c) ==
    CASE c = "H" -> "h"
      [] c = "M" -> "m"
      [] c = "L" -> "l"
      [] c = "X" -> "x"
      [] c = "T" -> "t"
      [] OTHER -> c

LowerCase(cs) == [i \in 1..Len(cs) |-> LowerChar(cs[i])]

RECURSIVE TrimStart(_)
TrimStart(cs) ==
    IF cs # <<>> /\ Head(cs) = " " THEN TrimStart(Tail(cs)) ELSE cs

RECURSIVE TrimEnd(_)
TrimEnd(cs) ==
    IF cs # <<>> /\ cs[Len(cs)] = " " THEN TrimEnd(SubSeq(cs, 1, Len(cs) - 1)) ELSE cs

\* String.prototype.trim
Trim(cs) == TrimEnd(TrimStart(cs))

\* JavaScript truthiness: "", 0, NaN, null and undefined are falsy
Truthy(v) ==
    CASE v[1] = "str" -> Len(v) > 1
      [] v[1] = "num" -> v[2] \notin {"0", "NaN"}
      [] OTHER -> FALSE

\* Number(v): a blank string and null give 0, a digit string its number,
\* any other string and undefined give NaN
ToNumber(v) ==
    CASE v[1] = "num" -> v
      [] v[1] = "null" -> Num("0")
      [] v[1] = "str" ->
            LET t == Trim(Chars(v)) IN
            IF t = <<>> THEN Num("0")
            ELSE IF Len(t) = 1 /\ t[1] \in Digits THEN Num(t[1])
            ELSE NaN
      [] OTHER -> NaN

IsNaN(n) == n = NaN
IsFinite(n) == n[1] = "num" /\ n[2] \notin {"NaN", "Infinity"}

\* JSON.parse(JSON.stringify(v)) of a property value: NaN and Infinity are
\* written as null; a property whose value is undefined is dropped, and reads
\* back as undefined
JsonValue(v) ==
    IF v[1] = "num" /\ v[2] \in {"NaN", "Infinity"} THEN Null ELSE v

\* ------------------------------------------------------------ rules table
High == Str(<<"H", "i", "g", "h">>)
Medium == Str(<<"M", "e", "d", "i", "u", "m">>)
Low == Str(<<"L", "o", "w">>)
SEVERITY_OPTIONS == {High, Medium, Low}

normalizeSeverity(v) ==
    IF ~IsString(v) THEN v
    ELSE LET s == LowerCase(Trim(Chars(v))) IN
         IF s # <<>> /\ s[1] = "h" THEN High
         ELSE IF s # <<>> /\ s[1] = "m" THEN Medium
         ELSE IF s # <<>> /\ s[1] = "l" THEN Low
         ELSE IF s = <<"3">> \/ s = <<"h", "i", "g", "h">> THEN High
         ELSE IF s = <<"2">> \/ s = <<"m", "e", "d", "i", "u", "m">> THEN Medium
         ELSE IF s = <<"1">> \/ s = <<"l", "o", "w">> THEN Low
         ELSE v


VARIABLES
    \* --- rules table (UploadFrameworkTable)
    rows,             \* useState rows: the editable collection
    draft,            \* localStorage "upload_framework_draft" (parsed form)
    savedDraftExists, \* useState savedDraftExists
    loadingImport,    \* useState loadingImport
    importedCount,    \* useState _importedCount; -1 encodes null
    server,           \* the remote /rules store
    mountPc,          \* the loadBackendRules() call of the mount effect
    upPc,             \* position of the running upsertAll
    upSnap,           \* the rows the running upsertAll closed over
    upIdx,            \* index of the row its loop is at
    upResults,        \* results.length
    upCalls,          \* the remote calls it has issued, in order
    delPc,            \* position of the running deleteRow
    delTarget,        \* [lid, sid] of the row the running deleteRow addresses
    ops,              \* user actions (clicks, keystrokes, uploads) taken so far
    \* --- events table (UploadEvents)
    newRows,          \* useState newRows: the "new" partition
    oldRows,          \* useState oldRows: the "old" partition
    rules,            \* useState rules: the catalog loaded from GET /rules
    fuseRef,          \* the catalog fuseRef.current indexes; <<>> encodes null
    evMountPc,        \* the loadRules() call of the mount effect
    selectedForManualMatch, \* the row the dialog was opened for
    matchModalOpen,   \* useState matchModalOpen
    saving,           \* useState saving
    importResult,     \* useState importResult
    evDraft,          \* localStorage "events_upload_draft" (parsed form)
    evServer,         \* the remote /events store
    savePc,           \* position of the running saveAllToServer
    saveNew,          \* the newRows the running saveAllToServer closed over
    saveAll,          \* its allRows = [...newRows, ...oldRows]
    saveCalls,        \* the remote calls of the last saveAllToServer, in order
    matchedAlerts,    \* the body of its POST /alerts
    loadPc,           \* the running loadExistingEventsFromServer
    activeTab,        \* the partition the table shows: "new" or "old"
    \* --- pure functions applied to drawn inputs
    pureIn,           \* the input drawn
    pureOut,          \* the result; <<>> until the function has been applied
    \* --- the router
    route,            \* the path whose page is mounted
    download,         \* the last file handed to the browser as a download
    \* --- the rule codes of the rules table (rows projected to rule_code, _id)
    codeRows,         \* useState rows, each row its rule_code and _id
    counterRef,       \* counterRef.current
    codeDocs,         \* the records GET /rules returns
    codeDraft,        \* localStorage "upload_framework_draft", the rows' codes
    loadsInFlight,    \* loadBackendRules() calls awaiting their response
    filePc,           \* "reading" while handleFile awaits file.arrayBuffer()
    fileRows,         \* the rows the running handleFile closed over
    minted,           \* the codes generateRuleCode has returned, in order
    \* --- the pager of the mounted table
    page,             \* useState page
    pageSize,         \* useState pageSize
    shown,            \* the rows it counts: rows.length, or totalFiltered
    effectDue,        \* a dependency of the clamping effect changed in the last render
    pageLog,          \* the last step of the pager
    \* --- both tables
    uploadAlert       \* the text the catch of handleFile has passed to alert(); "" if none

rulesVars == <<rows, draft, savedDraftExists, loadingImport, importedCount,
               server, mountPc, upPc, upSnap, upIdx, upResults, upCalls,
               delPc, delTarget>>

eventsVars == <<newRows, oldRows, rules, fuseRef, evMountPc, selectedForManualMatch,
                matchModalOpen, saving, importResult, evDraft, evServer, savePc,
                saveNew, saveAll, saveCalls, matchedAlerts, loadPc, activeTab>>

pureVars == <<pureIn, pureOut>>

codeVars == <<codeRows, counterRef, codeDocs, codeDraft, loadsInFlight, filePc,
              fileRows, minted>>

pageVars == <<page, pageSize, shown, effectDue, pageLog>>

vars == <<rulesVars, eventsVars, ops, pureVars, route, download, codeVars, pageVars,
          uploadAlert>>

\* the paths of the two table pages
FrameworkRoute == "/upload/framework"
EventsRoute == "/upload/events"

\* _id: 0 encodes "no server id" (undefined); server ids are 1, 2, ...
NoId == 0
NoDraft == [present |-> FALSE, rows |-> <<>>]
NoTarget == [lid |-> 0, sid |-> 0]

\* values a parsed spreadsheet cell / a typed cell can hold
CellTexts == {Str(<<" ">>), Str(<<"a", "b">>)}
TatRaw == {EmptyStr, Str(<<"5">>), Str(<<"x">>)}
\* parsed sheet rows of an uploaded rulebook: the cells mapped to
\* change_reported, tat_days and severity (Undefined: no column mapped)
\* notes: the cell of a column ("Notes") that no field is mapped to
ParsedRuleCells ==
    {[text |-> Str(<<"a", "b">>), tat |-> Str(<<"5">>), sev |-> Str(<<"h", "i">>),
      notes |-> Str(<<"n">>)],
     [text |-> Str(<<" ">>), tat |-> EmptyStr, sev |-> Undefined, notes |-> Str(<<"n">>)],
     [text |-> Str(<<"a", "b">>), tat |-> Str(<<"x">>), sev |-> Str(<<"X">>),
      notes |-> Str(<<"n">>)],
     [text |-> Str(<<"a", "b">>), tat |-> Undefined, sev |-> Str(<<" ", "M">>),
      notes |-> Str(<<"n">>)]}

Range(f) == {f[i] : i \in DOMAIN f}

\* client-local identifiers and server identifiers still held anywhere
LocalIdsInUse ==
    {r.__localId : r \in Range(rows) \cup Range(draft.rows) \cup Range(upSnap)}
        \cup {delTarget.lid}
ServerIdsInUse ==
    {r._id : r \in Range(rows) \cup Range(draft.rows) \cup Range(upSnap) \cup Range(server)}
        \cup {delTarget.sid}

\* genLocalId: a random identifier, modelled as one no row in memory, in the
\* draft or addressed by a running operation carries; FreshIds(S, n) are n such
FreshIds(S, n) ==
    LET F[k \in 0..n] ==
            IF k = 0 THEN <<>>
            ELSE LET used == S \cup Range(F[k - 1]) \cup {0}
                 IN Append(F[k - 1], CHOOSE i \in 1..(Cardinality(used) + 1) : i \notin used)
    IN F[n]
genLocalId == FreshIds(LocalIdsInUse, 1)[1]
\* the identifier the remote store gives a created record
NewServerId == FreshIds(ServerIdsInUse, 1)[1]


NullishOr(v, d) == IF v \in {Null, Undefined} THEN d ELSE v

\* a validation that adds the errors it finds to the ones the row carries
validateRowKeepingErrors(r) ==
    LET cr == NullishOr(r.change_reported, EmptyStr)
        e1 == IF ~Truthy(cr) \/ Trim(Chars(cr)) = <<>> THEN {"change_reported"} ELSE {}
        td == NullishOr(r.tat_days, EmptyStr)
        e2 == IF td # EmptyStr /\ IsNaN(ToNumber(td)) THEN {"tat_days"} ELSE {}
        norm == normalizeSeverity(r.severity)
        sevOk == norm \in SEVERITY_OPTIONS
        e3 == IF Truthy(r.severity) /\ ~sevOk THEN {"severity"} ELSE {}
    IN [r EXCEPT !.severity = IF Truthy(r.severity) /\ sevOk THEN norm ELSE @,
                 !._errors = @ \cup e1 \cup e2 \cup e3]

\* rows.map(...) of validateAll, one row: the error map, and the normalized
\* severity written back into the row
validateRow(r) ==
    LET cr == NullishOr(r.change_reported, EmptyStr)
        e1 == IF ~Truthy(cr) \/ Trim(Chars(cr)) = <<>> THEN {"change_reported"} ELSE {}
        td == NullishOr(r.tat_days, EmptyStr)
        e2 == IF td # EmptyStr /\ IsNaN(ToNumber(td)) THEN {"tat_days"} ELSE {}
        norm == normalizeSeverity(r.severity)
        sevOk == norm \in SEVERITY_OPTIONS
        e3 == IF Truthy(r.severity) /\ ~sevOk THEN {"severity"} ELSE {}
    IN [r EXCEPT !.severity = IF Truthy(r.severity) /\ sevOk THEN norm ELSE @,
                 !._errors = e1 \cup e2 \cup e3]

validated == [i \in 1..Len(rows) |-> validateRow(rows[i])]
AllValid == \A i \in 1..Len(rows) : validated[i]._errors = {}

\* the request body of a row: the row without __localId and _errors, as JSON
Payload(r) == [_id |-> r._id,
               change_reported |-> JsonValue(r.change_reported),
               tat_days |-> JsonValue(r.tat_days),
               severity |-> JsonValue(r.severity)]

\* the (data || []).map(...) of loadBackendRules: server records as editable rows
BackendRow(d, lid) ==
    [__localId |-> lid,
     _id |-> d._id,
     change_reported |-> NullishOr(d.change_reported, EmptyStr),
     tat_days |-> (LET n == ToNumber(d.tat_days) IN IF IsFinite(n) THEN n ELSE EmptyStr),
     severity |-> NullishOr(normalizeSeverity(d.severity), EmptyStr),
     _errors |-> {}]

BackendRows(inUse) ==
    LET ids == FreshIds(inUse, Len(server))
    IN [i \in 1..Len(server) |-> BackendRow(server[i], ids[i])]

\* one row built by handleFile from a parsed sheet row
BuiltRow(lid, text, tatCell, sevCell) ==
    [__localId |-> lid,
     _id |-> NoId,
     change_reported |-> NullishOr(text, EmptyStr),
     tat_days |-> (LET n == ToNumber(tatCell) IN IF IsFinite(n) THEN n ELSE EmptyStr),
     severity |-> NullishOr(normalizeSeverity(sevCell), EmptyStr),
     _errors |-> {}]

\* JSON.stringify of the rows for the draft key, read back by JSON.parse
JsonRow(r) == [r EXCEPT !.change_reported = JsonValue(@),
                        !.tat_days = JsonValue(@),
                        !.severity = JsonValue(@)]
JsonRows(rs) == [i \in 1..Len(rs) |-> JsonRow(rs[i])]

RemoveRow(rs, lid) == SelectSeq(rs, LAMBDA r : r.__localId # lid)
HasRow(rs, lid) == \E i \in 1..Len(rs) : rs[i].__localId = lid
FindRow(rs, lid) ==
    rs[CHOOSE i \in 1..Len(rs) :
           rs[i].__localId = lid /\ \A j \in 1..(i - 1) : rs[j].__localId # lid]


\* the remote store holds at most this many rules (a create beyond it fails)
ServerCap == MaxRows

\* records the remote store may hold when the page is opened
SeedDoc(sid) == [_id |-> sid, change_reported |-> Str(<<"a", "b">>),
                 tat_days |-> Num("5"), severity |-> Str(<<"h", "i">>)]
ServerSeed == {<<>>, <<SeedDoc(1), SeedDoc(2)>>}

RulesInit ==
    /\ rows = <<>>
    /\ draft = NoDraft
    /\ savedDraftExists = FALSE
    /\ loadingImport = FALSE
    /\ importedCount = -1
    /\ server \in ServerSeed
    /\ mountPc = "load"
    /\ upPc = "idle"
    /\ upSnap = <<>>
    /\ upIdx = 0
    /\ upResults = 0
    /\ upCalls = <<>>
    /\ delPc = "idle"
    /\ delTarget = NoTarget

\* a user action is taken within the session's budget
UserOp == ops < MaxOps /\ ops' = ops + 1 /\ UNCHANGED <<pureVars, route, download, codeVars, pageVars, uploadAlert>>
\* a user action that hands a file to the browser
ExportOp == ops < MaxOps /\ ops' = ops + 1 /\ UNCHANGED <<pureVars, route, codeVars, pageVars, uploadAlert>>
\* a continuation of a running handler (a settled remote call) is no user action
Background == UNCHANGED <<ops, pureVars, route, download, codeVars, pageVars, uploadAlert>>

\* ---- loadBackendRules() of the mount effect resolving
MountLoad ==
    /\ Background
    /\ UNCHANGED eventsVars
    /\ mountPc = "load"
    /\ mountPc' = "done"
    /\ \E ok \in BOOLEAN :
          rows' = IF ok THEN BackendRows(LocalIdsInUse) ELSE rows
    /\ UNCHANGED <<draft, savedDraftExists, loadingImport, importedCount, server,
                   upPc, upSnap, upIdx, upResults, upCalls, delPc, delTarget>>

\* an update that also resets the error map of the row it patches
updateRowClearingErrors(lid, field, v) ==
    rows' = [i \in 1..Len(rows) |->
                IF rows[i].__localId = lid
                THEN [rows[i] EXCEPT ![field] = v, !._errors = {}] ELSE rows[i]]

\* ---- updateRow(localId, patch)
updateRow(lid, field, v) ==
    rows' = [i \in 1..Len(rows) |->
                IF rows[i].__localId = lid THEN [rows[i] EXCEPT ![field] = v] ELSE rows[i]]

RowSync == UNCHANGED <<draft, savedDraftExists, loadingImport, importedCount, server,
                       mountPc, upPc, upSnap, upIdx, upResults, upCalls, delPc, delTarget>>

\* the onChange handlers of the table cells
EditChangeReported ==
    /\ UserOp
    /\ UNCHANGED eventsVars
    /\ \E i \in 1..Len(rows), v \in CellTexts \cup {EmptyStr} :
          updateRow(rows[i].__localId, "change_reported", v)
    /\ RowSync

EditTat ==
    /\ UserOp
    /\ UNCHANGED eventsVars
    /\ \E i \in 1..Len(rows), raw \in TatRaw :
          updateRow(rows[i].__localId, "tat_days",
                    IF raw = EmptyStr THEN EmptyStr ELSE ToNumber(raw))
    /\ RowSync

EditSeverity ==
    /\ UserOp
    /\ UNCHANGED eventsVars
    /\ \E i \in 1..Len(rows), v \in SEVERITY_OPTIONS \cup {EmptyStr} :
          updateRow(rows[i].__localId, "severity", v)
    /\ RowSync

InsertAt(rs, k, r) == SubSeq(rs, 1, k) \o <<r>> \o SubSeq(rs, k + 1, Len(rs))

addEmptyRow ==
    /\ UserOp
    /\ UNCHANGED eventsVars
    /\ Len(rows) < MaxRows
    /\ LET newRow == [__localId |-> genLocalId, _id |-> NoId,
                      change_reported |-> EmptyStr, tat_days |-> EmptyStr,
                      severity |-> EmptyStr, _errors |-> {}]
       IN \E at \in 0..Len(rows) : rows' = InsertAt(rows, at, newRow)
    /\ RowSync

\* a move that wraps around: the first row moved up changes places with the last
movedRowsWrapping(prev, lid, dir) ==
    IF ~HasRow(prev, lid) THEN prev
    ELSE LET idx == CHOOSE i \in 1..Len(prev) :
                        prev[i].__localId = lid /\ \A j \in 1..(i - 1) : prev[j].__localId # lid
             step == IF dir = "up" THEN idx - 1 ELSE idx + 1
             swapIdx == IF step < 1 THEN Len(prev) ELSE IF step > Len(prev) THEN 1 ELSE step
         IN [prev EXCEPT ![idx] = prev[swapIdx], ![swapIdx] = prev[idx]]

\* the updater of moveRow(localId, dir): findIndex, then the swap or prev
movedRows(prev, lid, dir) ==
    IF ~HasRow(prev, lid) THEN prev
    ELSE LET idx == CHOOSE i \in 1..Len(prev) :
                        prev[i].__localId = lid /\ \A j \in 1..(i - 1) : prev[j].__localId # lid
             swapIdx == IF dir = "up" THEN idx - 1 ELSE idx + 1
         IN IF swapIdx < 1 \/ swapIdx > Len(prev) THEN prev
            ELSE [prev EXCEPT ![idx] = prev[swapIdx], ![swapIdx] = prev[idx]]

\* the up and down buttons of a row
moveRow ==
    /\ UserOp
    /\ UNCHANGED eventsVars
    /\ \E i \in 1..Len(rows), dir \in {"up", "down"} :
          rows' = movedRows(rows, rows[i].__localId, dir)
    /\ RowSync

\* the Validate button
validateAll ==
    /\ UserOp
    /\ UNCHANGED eventsVars
    /\ rows' = validated
    /\ RowSync

\* ---- handleFile: one parsed sheet row appended, the draft written
handleFile ==
    /\ UserOp
    /\ UNCHANGED eventsVars
    /\ Len(rows) < MaxRows
    /\ \E c \in ParsedRuleCells :
          LET combined == Append(rows, BuiltRow(genLocalId, c.text, c.tat, c.sev))
          IN /\ rows' = combined
             /\ draft' = [present |-> TRUE, rows |-> JsonRows(combined)]
    /\ savedDraftExists' = TRUE
    /\ UNCHANGED <<loadingImport, importedCount, server, mountPc, upPc, upSnap,
                   upIdx, upResults, upCalls, delPc, delTarget>>

\* the text of the alert in the catch of handleFile (both tables)
ParseAlert == "Failed to parse uploaded file. Ensure XLS/XLSX/CSV."

\* ---- handleFile, the file not a spreadsheet: XLSX.read throws before the
\* first state setter is reached, and the catch alerts
handleFileFailed ==
    /\ ops < MaxOps
    /\ ops' = ops + 1
    /\ uploadAlert' = ParseAlert
    /\ UNCHANGED <<rulesVars, eventsVars, pureVars, route, download, codeVars, pageVars>>

\* ---- draft actions
saveDraft ==
    /\ UserOp
    /\ UNCHANGED eventsVars
    /\ Len(rows) > 0
    /\ draft' = [present |-> TRUE, rows |-> JsonRows(rows)]
    /\ savedDraftExists' = TRUE
    /\ UNCHANGED <<rows, loadingImport, importedCount, server, mountPc, upPc, upSnap,
                   upIdx, upResults, upCalls, delPc, delTarget>>

LoadedRows(d, inUse) ==
    LET ids == FreshIds(inUse, Len(d.rows))
    IN [i \in 1..Len(d.rows) |-> [d.rows[i] EXCEPT !.__localId = ids[i]]]

loadDraft ==
    /\ UserOp
    /\ UNCHANGED eventsVars
    /\ savedDraftExists
    /\ rows' = IF draft.present THEN LoadedRows(draft, LocalIdsInUse) ELSE rows
    /\ UNCHANGED <<draft, savedDraftExists, loadingImport, importedCount, server,
                   mountPc, upPc, upSnap, upIdx, upResults, upCalls, delPc, delTarget>>

\* the click on Clear, its confirm() accepted (declined, the handler returns at once)
clearAll ==
    /\ UserOp
    /\ UNCHANGED eventsVars
    /\ rows' = <<>>
    /\ importedCount' = -1
    /\ draft' = NoDraft
    /\ savedDraftExists' = FALSE
    /\ UNCHANGED <<loadingImport, server, mountPc, upPc, upSnap, upIdx, upResults,
                   upCalls, delPc, delTarget>>


\* ---- the remote /rules store
HasDoc(sid) == \E i \in 1..Len(server) : server[i]._id = sid
ServerPut(sid, body) ==
    [i \in 1..Len(server) |->
        IF server[i]._id = sid THEN [body EXCEPT !._id = sid] ELSE server[i]]
ServerPost(body) == Append(server, [body EXCEPT !._id = NewServerId])
ServerDelete(sid) == SelectSeq(server, LAMBDA d : d._id # sid)

\* ---- upsertAll
\* a loop that creates every row, whether or not it carries a server id
UpsertRequestAlwaysPost(r) == [method |-> "POST", id |-> NoId, row |-> r.__localId]

\* the request the loop of upsertAll issues for row r: if (r._id) PUT, else POST
UpsertRequest(r) ==
    IF r._id # NoId THEN [method |-> "PUT", id |-> r._id, row |-> r.__localId]
    ELSE [method |-> "POST", id |-> NoId, row |-> r.__localId]

\* whether the remote store can answer the request with success
CanSucceed(req) ==
    IF req.method = "PUT" THEN HasDoc(req.id) ELSE Len(server) < ServerCap

\* a Save that enters the loop without looking at validateAll's verdict
upsertAllUnchecked ==
    /\ UserOp
    /\ UNCHANGED eventsVars
    /\ Len(rows) > 0
    /\ ~loadingImport
    /\ rows' = validated
    /\ loadingImport' = TRUE
    /\ upPc' = "loop"
    /\ upSnap' = [i \in 1..Len(rows) |->
                     [rows[i] EXCEPT !.severity = validated[i].severity]]
    /\ upIdx' = 1
    /\ upResults' = 0
    /\ upCalls' = <<>>
    /\ UNCHANGED <<draft, savedDraftExists, importedCount, server, mountPc, delPc, delTarget>>

\* the click on Save: validateAll, then the loop is entered or the handler returns
upsertAll ==
    /\ UserOp
    /\ UNCHANGED eventsVars
    /\ Len(rows) > 0
    /\ ~loadingImport
    /\ rows' = validated
    /\ IF AllValid
       THEN /\ loadingImport' = TRUE
            /\ upPc' = "loop"
            \* the closed-over rows, their severity normalized in place by validateAll
            /\ upSnap' = [i \in 1..Len(rows) |->
                             [rows[i] EXCEPT !.severity = validated[i].severity]]
            /\ upIdx' = 1
            /\ upResults' = 0
            /\ upCalls' = <<>>
       ELSE UNCHANGED <<loadingImport, upPc, upSnap, upIdx, upResults, upCalls>>
    /\ UNCHANGED <<draft, savedDraftExists, importedCount, server, mountPc, delPc, delTarget>>

\* a loop whose first failed call ends the batch (one try around the whole loop)
upsertStepAborting ==
    /\ Background
    /\ UNCHANGED eventsVars
    /\ upPc = "loop"
    /\ LET r == upSnap[upIdx]
           req == UpsertRequest(r)
       IN \E ok \in BOOLEAN :
             /\ ok => CanSucceed(req)
             /\ upCalls' = Append(upCalls, req @@ [ok |-> ok])
             /\ upResults' = IF ok THEN upResults + 1 ELSE upResults
             /\ server' = IF ~ok THEN server
                          ELSE IF req.method = "PUT" THEN ServerPut(req.id, Payload(r))
                          ELSE ServerPost(Payload(r))
             /\ upPc' = IF upIdx = Len(upSnap) \/ ~ok THEN "reload" ELSE "loop"
    /\ upIdx' = upIdx + 1
    /\ UNCHANGED <<rows, draft, savedDraftExists, loadingImport, importedCount,
                   mountPc, upSnap, delPc, delTarget>>

\* one iteration of the loop: the call for upSnap[upIdx] is issued and settles
upsertStep ==
    /\ Background
    /\ UNCHANGED eventsVars
    /\ upPc = "loop"
    /\ LET r == upSnap[upIdx]
           req == UpsertRequest(r)
       IN \E ok \in BOOLEAN :
             /\ ok => CanSucceed(req)
             /\ upCalls' = Append(upCalls, req @@ [ok |-> ok])
             /\ upResults' = IF ok THEN upResults + 1 ELSE upResults
             /\ server' = IF ~ok THEN server
                          ELSE IF req.method = "PUT" THEN ServerPut(req.id, Payload(r))
                          ELSE ServerPost(Payload(r))
    /\ upIdx' = upIdx + 1
    /\ upPc' = IF upIdx = Len(upSnap) THEN "reload" ELSE "loop"
    /\ UNCHANGED <<rows, draft, savedDraftExists, loadingImport, importedCount,
                   mountPc, upSnap, delPc, delTarget>>

\* after the loop: await loadBackendRules(), then the count, the draft key, finally
upsertReload ==
    /\ Background
    /\ UNCHANGED eventsVars
    /\ upPc = "reload"
    /\ \E ok \in BOOLEAN :
          rows' = IF ok THEN BackendRows(LocalIdsInUse) ELSE rows
    /\ importedCount' = upResults
    /\ draft' = NoDraft
    /\ savedDraftExists' = FALSE
    /\ loadingImport' = FALSE
    /\ upPc' = "idle"
    /\ upSnap' = <<>>
    /\ upIdx' = 0
    /\ upResults' = 0
    /\ upCalls' = <<>>
    /\ UNCHANGED <<server, mountPc, delPc, delTarget>>

\* a deleteRow that drops the row before the DELETE call has settled
deleteRowOptimistic ==
    /\ UserOp
    /\ UNCHANGED eventsVars
    /\ delPc = "idle"
    /\ \E i \in 1..Len(rows), confirmed \in BOOLEAN :
          LET target == FindRow(rows, rows[i].__localId) IN
          /\ rows' = IF confirmed THEN RemoveRow(rows, target.__localId) ELSE rows
          /\ IF target._id # NoId
             THEN /\ delPc' = IF confirmed THEN "delete" ELSE "idle"
                  /\ delTarget' = IF confirmed
                                  THEN [lid |-> target.__localId, sid |-> target._id]
                                  ELSE NoTarget
             ELSE UNCHANGED <<delPc, delTarget>>
    /\ UNCHANGED <<draft, savedDraftExists, loadingImport, importedCount, server,
                   mountPc, upPc, upSnap, upIdx, upResults, upCalls>>

\* ---- deleteRow
\* the click on Delete, the confirm() answered
deleteRow ==
    /\ UserOp
    /\ UNCHANGED eventsVars
    /\ delPc = "idle"
    /\ \E i \in 1..Len(rows), confirmed \in BOOLEAN :
          LET target == FindRow(rows, rows[i].__localId) IN
          IF target._id # NoId
          THEN /\ rows' = rows
               /\ delPc' = IF confirmed THEN "delete" ELSE "idle"
               /\ delTarget' = IF confirmed
                               THEN [lid |-> target.__localId, sid |-> target._id]
                               ELSE NoTarget
          ELSE /\ rows' = IF confirmed THEN RemoveRow(rows, target.__localId) ELSE rows
               /\ UNCHANGED <<delPc, delTarget>>
    /\ UNCHANGED <<draft, savedDraftExists, loadingImport, importedCount, server,
                   mountPc, upPc, upSnap, upIdx, upResults, upCalls>>

\* DELETE /rules/<_id> settles
deleteSettle ==
    /\ Background
    /\ UNCHANGED eventsVars
    /\ delPc = "delete"
    /\ \E ok \in BOOLEAN :
          /\ ok => HasDoc(delTarget.sid)
          /\ IF ok
             THEN /\ server' = ServerDelete(delTarget.sid)
                  /\ rows' = RemoveRow(rows, delTarget.lid)
                  /\ delPc' = "reload"
                  /\ UNCHANGED delTarget
             ELSE /\ delPc' = "idle"
                  /\ delTarget' = NoTarget
                  /\ UNCHANGED <<server, rows>>
    /\ UNCHANGED <<draft, savedDraftExists, loadingImport, importedCount,
                   mountPc, upPc, upSnap, upIdx, upResults, upCalls>>

\* the loadBackendRules() awaited after a successful delete
deleteReload ==
    /\ Background
    /\ UNCHANGED eventsVars
    /\ delPc = "reload"
    /\ \E ok \in BOOLEAN :
          rows' = IF ok THEN BackendRows(LocalIdsInUse) ELSE rows
    /\ delPc' = "idle"
    /\ delTarget' = NoTarget
    /\ UNCHANGED <<draft, savedDraftExists, loadingImport, importedCount, server,
                   mountPc, upPc, upSnap, upIdx, upResults, upCalls>>

\* ---- export
\* the rows without __localId and _errors, as JSON.stringify writes them
normalizedPreview ==
    [i \in 1..Len(rows) |->
        [_id |-> rows[i]._id,
         change_reported |-> JsonValue(rows[i].change_reported),
         tat_days |-> JsonValue(rows[i].tat_days),
         severity |-> JsonValue(rows[i].severity)]]

exportJson ==
    /\ ExportOp
    /\ UNCHANGED eventsVars
    /\ Len(rows) > 0
    /\ download' = [name |-> "ews_rules_table.json", records |-> normalizedPreview]
    /\ UNCHANGED rulesVars

RulesNext ==
    \/ handleFileFailed
    \/ MountLoad
    \/ EditChangeReported
    \/ EditTat
    \/ EditSeverity
    \/ addEmptyRow
    \/ moveRow
    \/ validateAll
    \/ handleFile
    \/ saveDraft
    \/ loadDraft
    \/ clearAll
    \/ upsertAll
    \/ upsertStep
    \/ upsertReload
    \/ deleteRow
    \/ deleteSettle
    \/ deleteReload
    \/ exportJson

\* ----------------------------------------------------------- events table
\* matchedRule: null is encoded as the rule with code 0
NoRule == [code |-> 0, change_reported |-> EmptyStr, severity |-> Undefined,
           tat_days |-> Undefined]
\* the catalog GET /rules answers with on the events page
Catalog ==
    <<[code |-> 1, change_reported |-> Str(<<"a", "b">>), severity |-> High,
       tat_days |-> Num("5")],
      [code |-> 2, change_reported |-> Str(<<"x", "y">>), severity |-> Low,
       tat_days |-> Undefined]>>

\* score: null is encoded as -1; a Fuse score s in [0, 1] as 1000 * s
NoScore == -1
\* the tier thresholds of mapRowToEvent, 0.15 and 0.35
MatchedBelow == 150
LowBelow == 350

NoSelection == [lid |-> 0, sheetType |-> "new", change_reported |-> EmptyStr]
NoResult == [kind |-> "none", events |-> 0, alerts |-> 0]
NoEvDraft == [present |-> FALSE, new |-> <<>>, hasOld |-> FALSE, old |-> <<>>]

\* fuseRef.current.search(text): nothing, or a best candidate with its score
\* (score NoScore: the candidate carries no score)
NoHit == [found |-> FALSE, item |-> NoRule, score |-> NoScore]
Hit(rule, sc) == [found |-> TRUE, item |-> rule, score |-> sc]

\* a tier whose thresholds are inclusive (sc <= 0.15, sc <= 0.35)
ClassifyInclusive(hasFuse, text, res) ==
    IF hasFuse /\ Truthy(text) /\ Len(Trim(Chars(text))) > 1 /\ res.found
                /\ res.score # NoScore /\ res.score <= 350
    THEN [matchedRule |-> res.item,
          matchStatus |-> IF res.score <= 150 THEN "matched" ELSE "low",
          score |-> res.score]
    ELSE [matchedRule |-> NoRule, matchStatus |-> "unmatched", score |-> NoScore]

\* the tier mapRowToEvent gives a row: [matchedRule, matchStatus, score]
Unmatched == [matchedRule |-> NoRule, matchStatus |-> "unmatched", score |-> NoScore]
Classify(hasFuse, text, res) ==
    IF hasFuse /\ Truthy(text) /\ Len(Trim(Chars(text))) > 1
    THEN IF res.found
         THEN LET sc == res.score IN
              IF sc # NoScore
              THEN IF sc < MatchedBelow
                   THEN [matchedRule |-> res.item, matchStatus |-> "matched", score |-> sc]
                   ELSE IF sc < LowBelow
                   THEN [matchedRule |-> res.item, matchStatus |-> "low", score |-> sc]
                   ELSE Unmatched
              ELSE Unmatched
         ELSE Unmatched
    ELSE Unmatched

mapRowToEvent(lid, sheetType, cell, hasFuse) ==
    LET t == Classify(hasFuse, cell.text, cell.res)
    IN [__localId |-> lid,
        _saved |-> FALSE,
        sheetType |-> sheetType,
        company |-> cell.company,
        change_reported |-> cell.text,
        event_date |-> cell.date,
        matchedRule |-> t.matchedRule,
        matchStatus |-> t.matchStatus,
        score |-> t.score]

\* parsed sheet rows of an uploaded workbook: company, event text, normalized
\* event date, and what the Fuse index answers for the text
ParsedCells ==
    {[company |-> Str(<<"c">>), text |-> Str(<<"a">>), date |-> Null, res |-> NoHit],
     [company |-> Str(<<"c">>), text |-> Str(<<"a", "b">>), date |-> Str(<<"d">>),
      res |-> Hit(Catalog[1], 100)],
     [company |-> EmptyStr, text |-> Str(<<"a", "b">>), date |-> Null,
      res |-> Hit(Catalog[2], 200)],
     [company |-> Str(<<"c">>), text |-> Str(<<"x", "y">>), date |-> Null,
      res |-> Hit(Catalog[2], 350)]}

EvLocalIdsInUse ==
    {r.__localId : r \in Range(newRows) \cup Range(oldRows) \cup Range(evDraft.new)
                         \cup Range(evDraft.old) \cup Range(saveAll)}
        \cup {selectedForManualMatch.lid}
evGenLocalId == FreshIds(EvLocalIdsInUse, 1)[1]

EventsInit ==
    /\ newRows = <<>>
    /\ oldRows = <<>>
    /\ rules = <<>>
    /\ fuseRef = <<>>
    /\ evMountPc = "load"
    /\ selectedForManualMatch = NoSelection
    /\ matchModalOpen = FALSE
    /\ saving = FALSE
    /\ importResult = NoResult
    /\ evDraft = NoEvDraft
    /\ evServer = <<>>
    /\ savePc = "idle"
    /\ saveNew = <<>>
    /\ saveAll = <<>>
    /\ saveCalls = <<>>
    /\ matchedAlerts = <<>>
    /\ loadPc = "idle"
    /\ activeTab = "new"


\* ---- loadRules() of the mount effect resolving: setRules queues the catalog;
\* the effect on [rules] is passive and runs after the render it causes is
\* committed, in a task of its own
EvMountLoad ==
    /\ Background
    /\ UNCHANGED rulesVars
    /\ UNCHANGED activeTab
    /\ evMountPc = "load"
    /\ \E ok \in BOOLEAN :
          /\ rules' = IF ok THEN Catalog ELSE rules
          /\ evMountPc' = IF ok THEN "effect" ELSE "done"
    /\ UNCHANGED <<newRows, oldRows, fuseRef, selectedForManualMatch, matchModalOpen,
                   saving, importResult, evDraft, evServer, savePc, saveNew, saveAll,
                   saveCalls, matchedAlerts, loadPc>>

\* ---- the effect on [rules]: new Fuse(rules, ...), or null for no rules
evFuseEffect ==
    /\ Background
    /\ UNCHANGED rulesVars
    /\ UNCHANGED activeTab
    /\ evMountPc = "effect"
    /\ evMountPc' = "done"
    /\ fuseRef' = IF Len(rules) > 0 THEN rules ELSE <<>>
    /\ UNCHANGED <<newRows, oldRows, rules, selectedForManualMatch, matchModalOpen,
                   saving, importResult, evDraft, evServer, savePc, saveNew, saveAll,
                   saveCalls, matchedAlerts, loadPc>>

EvJsonRow(r) == [r EXCEPT !.company = JsonValue(@),
                          !.change_reported = JsonValue(@),
                          !.event_date = JsonValue(@)]
EvJsonRows(rs) == [i \in 1..Len(rs) |-> EvJsonRow(rs[i])]

\* an upload whose rows replace the rows of their partition
evHandleFileReplacing ==
    /\ UserOp
    /\ UNCHANGED rulesVars
    /\ UNCHANGED activeTab
    /\ Len(newRows) < MaxRows
    /\ \E c1 \in ParsedCells, twoSheets \in BOOLEAN :
          LET ids == FreshIds(EvLocalIdsInUse, 2)
              newMapped == <<mapRowToEvent(ids[1], "new", c1, fuseRef # <<>>)>>
              merged == newMapped
          IN /\ newRows' = merged
             /\ IF twoSheets
                THEN /\ Len(oldRows) < MaxRows
                     /\ \E c2 \in ParsedCells :
                           LET oldMapped == <<mapRowToEvent(ids[2], "old", c2, fuseRef # <<>>)>>
                               mergedOld == oldMapped
                           IN /\ oldRows' = mergedOld
                              /\ evDraft' = [present |-> TRUE,
                                             new |-> EvJsonRows(newMapped),
                                             hasOld |-> TRUE,
                                             old |-> EvJsonRows(mergedOld)]
                ELSE /\ oldRows' = oldRows
                     /\ evDraft' = [present |-> TRUE, new |-> EvJsonRows(merged),
                                    hasOld |-> FALSE, old |-> <<>>]
    /\ importResult' = NoResult
    /\ UNCHANGED <<rules, fuseRef, evMountPc, selectedForManualMatch, matchModalOpen,
                   saving, evServer, savePc, saveNew, saveAll, saveCalls,
                   matchedAlerts, loadPc>>

\* ---- handleFile: a workbook of one sheet (one row) or two sheets (one row each)
evHandleFile ==
    /\ UserOp
    /\ UNCHANGED rulesVars
    /\ UNCHANGED activeTab
    /\ Len(newRows) < MaxRows
    /\ \E c1 \in ParsedCells, twoSheets \in BOOLEAN :
          LET ids == FreshIds(EvLocalIdsInUse, 2)
              newMapped == <<mapRowToEvent(ids[1], "new", c1, fuseRef # <<>>)>>
              merged == newRows \o newMapped
          IN /\ newRows' = merged
             /\ IF twoSheets
                THEN /\ Len(oldRows) < MaxRows
                     /\ \E c2 \in ParsedCells :
                           LET oldMapped == <<mapRowToEvent(ids[2], "old", c2, fuseRef # <<>>)>>
                               mergedOld == oldRows \o oldMapped
                           IN /\ oldRows' = mergedOld
                              /\ evDraft' = [present |-> TRUE,
                                             new |-> EvJsonRows(newMapped),
                                             hasOld |-> TRUE,
                                             old |-> EvJsonRows(mergedOld)]
                ELSE /\ oldRows' = oldRows
                     /\ evDraft' = [present |-> TRUE, new |-> EvJsonRows(merged),
                                    hasOld |-> FALSE, old |-> <<>>]
    /\ importResult' = NoResult
    /\ UNCHANGED <<rules, fuseRef, evMountPc, selectedForManualMatch, matchModalOpen,
                   saving, evServer, savePc, saveNew, saveAll, saveCalls,
                   matchedAlerts, loadPc>>

\* an upload that commits the rows of the first sheet before it fails
evHandleFilePartial ==
    /\ ops < MaxOps
    /\ ops' = ops + 1
    /\ uploadAlert' = ParseAlert
    /\ Len(newRows) < MaxRows
    /\ \E c1 \in ParsedCells :
          newRows' = Append(newRows, mapRowToEvent(evGenLocalId, "new", c1, fuseRef # <<>>))
    /\ UNCHANGED <<oldRows, rules, fuseRef, evMountPc, selectedForManualMatch,
                   matchModalOpen, saving, importResult, evDraft, evServer, savePc,
                   saveNew, saveAll, saveCalls, matchedAlerts, loadPc, activeTab>>
    /\ UNCHANGED <<rulesVars, pureVars, route, download, codeVars, pageVars>>

\* ---- handleFile, the file not a spreadsheet: XLSX.read throws before the
\* first state setter is reached, and the catch alerts
evHandleFileFailed ==
    /\ ops < MaxOps
    /\ ops' = ops + 1
    /\ uploadAlert' = ParseAlert
    /\ UNCHANGED <<rulesVars, eventsVars, pureVars, route, download, codeVars, pageVars>>

EvRowSync == UNCHANGED <<activeTab, rules, fuseRef, evMountPc, saving, importResult, evDraft,
                         evServer, savePc, saveNew, saveAll, saveCalls, matchedAlerts,
                         loadPc>>

\* the rows of the shown partition
ActiveRows == IF activeTab = "new" THEN newRows ELSE oldRows

evAddEmptyRow ==
    /\ UserOp
    /\ UNCHANGED rulesVars
    /\ LET empty(sheet) ==
               [__localId |-> evGenLocalId, _saved |-> FALSE, sheetType |-> sheet,
                company |-> EmptyStr, change_reported |-> EmptyStr, event_date |-> Null,
                matchedRule |-> NoRule, matchStatus |-> "unmatched", score |-> NoScore]
       IN \* "Add New Event" of the toolbar: addEmptyRow('new'); setActiveTab('new')
          \/ /\ Len(newRows) < MaxRows
             /\ newRows' = <<empty("new")>> \o newRows
             /\ oldRows' = oldRows
             /\ activeTab' = "new"
          \* "+Row" of a shown row r: addEmptyRow(r.sheetType)
          \/ /\ \E r \in Range(ActiveRows) : r.sheetType = "new"
             /\ Len(newRows) < MaxRows
             /\ newRows' = <<empty("new")>> \o newRows
             /\ oldRows' = oldRows
             /\ activeTab' = activeTab
          \/ /\ \E r \in Range(ActiveRows) : r.sheetType = "old"
             /\ Len(oldRows) < MaxRows
             /\ oldRows' = <<empty("old")>> \o oldRows
             /\ newRows' = newRows
             /\ activeTab' = activeTab
    /\ UNCHANGED <<selectedForManualMatch, matchModalOpen>>
    /\ UNCHANGED <<rules, fuseRef, evMountPc, saving, importResult, evDraft,
                   evServer, savePc, saveNew, saveAll, saveCalls, matchedAlerts,
                   loadPc>>

\* the Delete button of a row, confirm() accepted
deleteLocalRow ==
    /\ UserOp
    /\ UNCHANGED rulesVars
    /\ \/ /\ activeTab = "new"
          /\ \E i \in 1..Len(newRows) :
                /\ newRows' = RemoveRow(newRows, newRows[i].__localId)
                /\ oldRows' = oldRows
       \/ /\ activeTab = "old"
          /\ \E i \in 1..Len(oldRows) :
                /\ oldRows' = RemoveRow(oldRows, oldRows[i].__localId)
                /\ newRows' = newRows
    /\ UNCHANGED <<selectedForManualMatch, matchModalOpen>>
    /\ EvRowSync

\* updateRow(localId, patch, sheetType) with a match patch
evUpdateMatch(rs, lid, patch) ==
    [i \in 1..Len(rs) |->
        IF rs[i].__localId = lid
        THEN [rs[i] EXCEPT !.matchedRule = patch.matchedRule,
                           !.matchStatus = patch.matchStatus,
                           !.score = patch.score]
        ELSE rs[i]]

\* ---- manual match
openManualMatch ==
    /\ UserOp
    /\ UNCHANGED rulesVars
    /\ \E r \in Range(ActiveRows) :
          selectedForManualMatch' = [lid |-> r.__localId, sheetType |-> r.sheetType,
                                     change_reported |-> r.change_reported]
    /\ matchModalOpen' = TRUE
    /\ UNCHANGED <<newRows, oldRows>>
    /\ EvRowSync

RECURSIVE IsPrefix(_, _)
IsPrefix(n, h) ==
    IF n = <<>> THEN TRUE
    ELSE IF h = <<>> THEN FALSE
    ELSE Head(n) = Head(h) /\ IsPrefix(Tail(n), Tail(h))

\* String.prototype.includes
RECURSIVE Includes(_, _)
Includes(h, n) ==
    IF IsPrefix(n, h) THEN TRUE
    ELSE IF h = <<>> THEN FALSE
    ELSE Includes(Tail(h), n)

\* FuzzyMatchModal: the rules the dialog lists for the event name
Filtered(eventName) ==
    {r \in Range(rules) :
        Includes(LowerCase(Chars(r.change_reported)), LowerCase(Chars(eventName)))}

\* a patch that sets the rule and the tier but leaves the distance unset
ManualPatchScoreless(rule) ==
    [matchedRule |-> rule,
     matchStatus |-> IF rule = NoRule THEN "unmatched" ELSE "matched",
     score |-> NoScore]

\* the patch handleManualMatchPicked(rule) applies; NoRule encodes null
ManualPatch(rule) ==
    IF rule = NoRule
    THEN [matchedRule |-> NoRule, matchStatus |-> "unmatched", score |-> NoScore]
    ELSE [matchedRule |-> rule, matchStatus |-> "matched", score |-> 0]

\* a click in the dialog: onSelect(rule | null), then onClose()
handleManualMatchPicked ==
    /\ UserOp
    /\ UNCHANGED rulesVars
    /\ matchModalOpen
    /\ \E rule \in Filtered(selectedForManualMatch.change_reported) \cup {NoRule} :
          IF selectedForManualMatch = NoSelection
          THEN UNCHANGED <<newRows, oldRows, selectedForManualMatch>>
          ELSE LET lid == selectedForManualMatch.lid IN
               /\ IF selectedForManualMatch.sheetType = "new"
                  THEN /\ newRows' = evUpdateMatch(newRows, lid, ManualPatch(rule))
                       /\ oldRows' = oldRows
                  ELSE /\ oldRows' = evUpdateMatch(oldRows, lid, ManualPatch(rule))
                       /\ newRows' = newRows
               /\ selectedForManualMatch' = NoSelection
    /\ matchModalOpen' = FALSE
    /\ EvRowSync

\* the close button of the dialog: onClose()
closeManualMatch ==
    /\ UserOp
    /\ UNCHANGED rulesVars
    /\ matchModalOpen
    /\ matchModalOpen' = FALSE
    /\ UNCHANGED <<newRows, oldRows, selectedForManualMatch>>
    /\ EvRowSync

\* ---- saveAllToServer
OrEmpty(v) == IF Truthy(v) THEN v ELSE EmptyStr
OrNull(v) == IF Truthy(v) THEN v ELSE Null

\* allRows.map(...): the body of POST /events
EventPayload(r) == [event_type |-> r.sheetType,
                    company |-> OrEmpty(r.company),
                    event_name |-> OrEmpty(r.change_reported),
                    event_date |-> OrNull(r.event_date)]

\* one alert payload (created_at, the time of the call, is left out)
AlertOf(r) == [row |-> r.__localId,
               company |-> OrEmpty(r.company),
               event_name |-> OrEmpty(r.change_reported),
               matched_rule |-> r.matchedRule,
               severity |-> r.matchedRule.severity,
               tat_days |-> r.matchedRule.tat_days,
               status |-> "Pending"]

\* a projection that keeps the rows of tier "matched" only
AlertProjectionMatchedOnly(closedNew) ==
    LET m == SelectSeq(closedNew, LAMBDA r : r.matchStatus = "matched")
    IN [i \in 1..Len(m) |-> AlertOf(m[i])]

\* newRows.filter((r) => r.matchedRule).map(...)
AlertProjection(closedNew) ==
    LET m == SelectSeq(closedNew, LAMBDA r : r.matchedRule # NoRule)
    IN [i \in 1..Len(m) |-> AlertOf(m[i])]

markSaved(arr) == [i \in 1..Len(arr) |-> [arr[i] EXCEPT !._saved = TRUE]]

CountType(docs, t) == Cardinality({i \in 1..Len(docs) : docs[i].event_type = t})
\* the remote /events store keeps at most MaxRows events of a partition
EvCanStore(body) ==
    \A t \in {"new", "old"} : CountType(evServer, t) + CountType(body, t) <= MaxRows

\* the click on Save All (the confirm() about incomplete rows accepted)
saveAllToServer ==
    /\ UserOp
    /\ UNCHANGED rulesVars
    /\ UNCHANGED activeTab
    /\ ~saving
    /\ Len(newRows) + Len(oldRows) > 0
    /\ saving' = TRUE
    /\ importResult' = NoResult
    /\ savePc' = "events"
    /\ saveNew' = newRows
    /\ saveAll' = newRows \o oldRows
    /\ saveCalls' = <<[url |-> "/events", st |-> "pending"]>>
    /\ matchedAlerts' = <<>>
    /\ UNCHANGED <<newRows, oldRows, rules, fuseRef, evMountPc, selectedForManualMatch,
                   matchModalOpen, evDraft, evServer, loadPc>>

\* POST /events settles: on success the rows are marked, the alert payloads are
\* built and POST /alerts is issued if there are any
saveEventsSettle ==
    /\ Background
    /\ UNCHANGED rulesVars
    /\ UNCHANGED activeTab
    /\ savePc = "events"
    /\ LET body == [i \in 1..Len(saveAll) |-> EventPayload(saveAll[i])] IN
       \E ok \in BOOLEAN :
          /\ ok => EvCanStore(body)
          /\ IF ok
             THEN LET alerts == AlertProjection(saveNew) IN
                  /\ evServer' = evServer \o body
                  /\ newRows' = markSaved(newRows)
                  /\ oldRows' = markSaved(oldRows)
                  /\ matchedAlerts' = alerts
                  /\ IF Len(alerts) > 0
                     THEN /\ savePc' = "alerts"
                          /\ saveCalls' = <<[url |-> "/events", st |-> "ok"],
                                            [url |-> "/alerts", st |-> "pending"]>>
                          /\ UNCHANGED <<saving, importResult, saveNew, saveAll>>
                     ELSE /\ savePc' = "idle"
                          /\ saveCalls' = <<[url |-> "/events", st |-> "ok"]>>
                          /\ importResult' = [kind |-> "saved", events |-> Len(body),
                                              alerts |-> 0]
                          /\ saving' = FALSE
                          /\ saveNew' = <<>>
                          /\ saveAll' = <<>>
             ELSE /\ savePc' = "idle"
                  /\ saveCalls' = <<[url |-> "/events", st |-> "failed"]>>
                  /\ saving' = FALSE
                  /\ saveNew' = <<>>
                  /\ saveAll' = <<>>
                  /\ UNCHANGED <<evServer, newRows, oldRows, matchedAlerts, importResult>>
    /\ UNCHANGED <<rules, fuseRef, evMountPc, selectedForManualMatch, matchModalOpen,
                   evDraft, loadPc>>

\* a settle that takes the saved marking back when POST /alerts fails
saveAlertsSettleUndoing ==
    /\ Background
    /\ UNCHANGED rulesVars
    /\ UNCHANGED activeTab
    /\ savePc = "alerts"
    /\ \E ok \in BOOLEAN :
          /\ saveCalls' = [saveCalls EXCEPT ![2].st = IF ok THEN "ok" ELSE "failed"]
          /\ importResult' = [kind |-> "saved", events |-> Len(saveAll),
                              alerts |-> IF ok THEN Len(matchedAlerts) ELSE 0]
          /\ newRows' = IF ok THEN newRows
                        ELSE [i \in 1..Len(newRows) |-> [newRows[i] EXCEPT !._saved = FALSE]]
    /\ saving' = FALSE
    /\ savePc' = "idle"
    /\ saveNew' = <<>>
    /\ saveAll' = <<>>
    /\ matchedAlerts' = <<>>
    /\ UNCHANGED <<oldRows, rules, fuseRef, evMountPc, selectedForManualMatch,
                   matchModalOpen, evDraft, evServer, loadPc>>

\* POST /alerts settles
saveAlertsSettle ==
    /\ Background
    /\ UNCHANGED rulesVars
    /\ UNCHANGED activeTab
    /\ savePc = "alerts"
    /\ \E ok \in BOOLEAN :
          /\ saveCalls' = [saveCalls EXCEPT ![2].st = IF ok THEN "ok" ELSE "failed"]
          /\ importResult' = [kind |-> "saved", events |-> Len(saveAll),
                              alerts |-> IF ok THEN Len(matchedAlerts) ELSE 0]
    /\ saving' = FALSE
    /\ savePc' = "idle"
    /\ saveNew' = <<>>
    /\ saveAll' = <<>>
    /\ matchedAlerts' = <<>>
    /\ UNCHANGED <<newRows, oldRows, rules, fuseRef, evMountPc, selectedForManualMatch,
                   matchModalOpen, evDraft, evServer, loadPc>>

\* ---- loadExistingEventsFromServer
ServerEventRow(d, lid) ==
    [__localId |-> lid, _saved |-> TRUE,
     sheetType |-> IF d.event_type = "old" THEN "old" ELSE "new",
     company |-> OrEmpty(d.company),
     change_reported |-> OrEmpty(d.event_name),
     event_date |-> OrNull(d.event_date),
     matchedRule |-> NoRule, matchStatus |-> "unmatched", score |-> NoScore]

loadExistingEventsFromServer ==
    /\ UserOp
    /\ UNCHANGED rulesVars
    /\ UNCHANGED activeTab
    /\ loadPc = "idle"
    /\ loadPc' = "get"
    /\ UNCHANGED <<newRows, oldRows, rules, fuseRef, evMountPc, selectedForManualMatch,
                   matchModalOpen, saving, importResult, evDraft, evServer, savePc,
                   saveNew, saveAll, saveCalls, matchedAlerts>>

loadExistingSettle ==
    /\ Background
    /\ UNCHANGED rulesVars
    /\ UNCHANGED activeTab
    /\ loadPc = "get"
    /\ loadPc' = "idle"
    /\ \E ok \in BOOLEAN :
          IF ok
          THEN LET ids == FreshIds(EvLocalIdsInUse, Len(evServer))
                   mapped == [i \in 1..Len(evServer) |-> ServerEventRow(evServer[i], ids[i])]
               IN /\ newRows' = SelectSeq(mapped, LAMBDA r : r.sheetType = "new")
                  /\ oldRows' = SelectSeq(mapped, LAMBDA r : r.sheetType = "old")
                  /\ importResult' = [kind |-> "loaded", events |-> 0, alerts |-> 0]
          ELSE UNCHANGED <<newRows, oldRows, importResult>>
    /\ UNCHANGED <<rules, fuseRef, evMountPc, selectedForManualMatch, matchModalOpen,
                   saving, evDraft, evServer, savePc, saveNew, saveAll, saveCalls,
                   matchedAlerts>>

\* ---- draft actions of the events table
EvLoaded(rs, ids) == [i \in 1..Len(rs) |-> [rs[i] EXCEPT !.__localId = ids[i]]]

evLoadDraft ==
    /\ UserOp
    /\ UNCHANGED rulesVars
    /\ UNCHANGED activeTab
    /\ IF evDraft.present
       THEN LET ids == FreshIds(EvLocalIdsInUse, Len(evDraft.new) + Len(evDraft.old))
            IN /\ newRows' = EvLoaded(evDraft.new, SubSeq(ids, 1, Len(evDraft.new)))
               /\ oldRows' = EvLoaded(evDraft.old,
                                      SubSeq(ids, Len(evDraft.new) + 1, Len(ids)))
               /\ importResult' = [kind |-> "draft", events |-> 0, alerts |-> 0]
       ELSE UNCHANGED <<newRows, oldRows, importResult>>
    /\ UNCHANGED <<rules, fuseRef, evMountPc, selectedForManualMatch, matchModalOpen,
                   saving, evDraft, evServer, savePc, saveNew, saveAll, saveCalls,
                   matchedAlerts, loadPc>>

saveDraftLocal ==
    /\ UserOp
    /\ UNCHANGED rulesVars
    /\ UNCHANGED activeTab
    /\ Len(newRows) + Len(oldRows) > 0
    /\ evDraft' = [present |-> TRUE, new |-> EvJsonRows(newRows),
                   hasOld |-> TRUE, old |-> EvJsonRows(oldRows)]
    /\ UNCHANGED <<newRows, oldRows, rules, fuseRef, evMountPc, selectedForManualMatch,
                   matchModalOpen, saving, importResult, evServer, savePc, saveNew,
                   saveAll, saveCalls, matchedAlerts, loadPc>>

\* a Clear that empties the table but leaves the draft key in place
evClearKeepingDraft ==
    /\ UserOp
    /\ UNCHANGED rulesVars
    /\ UNCHANGED activeTab
    /\ newRows' = <<>>
    /\ oldRows' = <<>>
    /\ UNCHANGED <<rules, fuseRef, evMountPc, selectedForManualMatch, matchModalOpen,
                   saving, importResult, evDraft, evServer, savePc, saveNew, saveAll,
                   saveCalls, matchedAlerts, loadPc>>

\* the Clear button
evClear ==
    /\ UserOp
    /\ UNCHANGED rulesVars
    /\ UNCHANGED activeTab
    /\ newRows' = <<>>
    /\ oldRows' = <<>>
    /\ evDraft' = NoEvDraft
    /\ UNCHANGED <<rules, fuseRef, evMountPc, selectedForManualMatch, matchModalOpen,
                   saving, importResult, evServer, savePc, saveNew, saveAll, saveCalls,
                   matchedAlerts, loadPc>>

\* ---- the tab buttons
setActiveTab ==
    /\ UserOp
    /\ UNCHANGED rulesVars
    /\ \E tab \in {"new", "old"} : activeTab' = tab
    /\ UNCHANGED <<newRows, oldRows, rules, fuseRef, evMountPc, selectedForManualMatch,
                   matchModalOpen, saving, importResult, evDraft, evServer, savePc,
                   saveNew, saveAll, saveCalls, matchedAlerts, loadPc>>

\* ---- export of the shown partition: data.map((r) => ({ ...r }))
exportCurrentTabJson ==
    /\ ExportOp
    /\ UNCHANGED rulesVars
    /\ download' = [name |-> IF activeTab = "new" THEN "new_events_export.json"
                             ELSE "old_events_export.json",
                    records |-> EvJsonRows(ActiveRows)]
    /\ UNCHANGED eventsVars

EventsNext ==
    \/ evHandleFileFailed
    \/ EvMountLoad
    \/ evFuseEffect
    \/ evHandleFile
    \/ evAddEmptyRow
    \/ deleteLocalRow
    \/ openManualMatch
    \/ handleManualMatchPicked
    \/ closeManualMatch
    \/ saveAllToServer
    \/ saveEventsSettle
    \/ saveAlertsSettle
    \/ loadExistingEventsFromServer
    \/ loadExistingSettle
    \/ evLoadDraft
    \/ saveDraftLocal
    \/ evClear
    \/ setActiveTab
    \/ exportCurrentTabJson

\* ------------------------------------------------------------- rule codes
\* The rules table again, its rows projected to rule_code and _id, and
\* handleFile in its two parts: up to "await file.arrayBuffer()", and from there.
\* A code is the text before its trailing digits and the number they spell.
NoDigits == -1
RCode(n) == [pre |-> "R-", num |-> n]
\* useRef<number>(1001)
CounterStart == 1001
\* most sheet rows one uploaded file holds
MaxParsed == 2

CodeRow(code, sid) == [rule_code |-> code, _id |-> sid]

Max(S) == CHOOSE m \in S : \A x \in S : x <= m
\* the numbers the pattern /(\d+)$/ finds in the rows' codes
Nums(rs) == {rs[i].rule_code.num : i \in 1..Len(rs)} \ {NoDigits}

\* a generator that takes the scan alone when the rows carry numbered codes
generateRuleCodeScanOnly(existingRowsAny, counter) ==
    LET nums == Nums(existingRowsAny)
        val == IF nums # {} THEN Max(nums) + 1 ELSE counter
    IN [code |-> RCode(val), counter |-> val + 1]

\* generateRuleCode(existingRowsAny, counterRef): the code returned and
\* counterRef.current after the call
generateRuleCode(existingRowsAny, counter) ==
    LET nums == Nums(existingRowsAny)
        val == IF nums # {} /\ Max(nums) >= counter THEN Max(nums) + 1 ELSE counter
    IN [code |-> RCode(val), counter |-> val + 1]

CodesIdle ==
    /\ codeRows = <<>>
    /\ counterRef = CounterStart
    /\ codeDocs = <<>>
    /\ codeDraft = [present |-> FALSE, rows |-> <<>>]
    /\ loadsInFlight = 0
    /\ filePc = "idle"
    /\ fileRows = <<>>
    /\ minted = <<>>

CodeOp ==
    /\ ops < MaxOps
    /\ ops' = ops + 1
    /\ UNCHANGED <<rulesVars, eventsVars, pureVars, route, download, pageVars, uploadAlert>>
CodeBackground ==
    UNCHANGED <<rulesVars, eventsVars, ops, pureVars, route, download, pageVars, uploadAlert>>

\* ---- loadBackendRules(): the response of GET /rules arrives
cdLoadBackendRules ==
    /\ CodeBackground
    /\ loadsInFlight > 0
    /\ loadsInFlight' = loadsInFlight - 1
    /\ \E ok \in BOOLEAN :
          IF ok
          THEN /\ codeRows' =
                    [i \in 1..Len(codeDocs) |->
                        CodeRow(IF codeDocs[i].key = "none" THEN RCode(1000 + (i - 1))
                                ELSE codeDocs[i].code,
                                codeDocs[i]._id)]
               /\ LET existingNums ==
                          {codeDocs[i].code.num :
                               i \in {k \in 1..Len(codeDocs) : codeDocs[k].key = "rule_code"}}
                              \ {NoDigits}
                  IN counterRef' =
                        IF existingNums # {} /\ Max(existingNums) >= counterRef
                        THEN Max(existingNums) + 1 ELSE counterRef
          ELSE UNCHANGED <<codeRows, counterRef>>
    /\ UNCHANGED <<codeDocs, codeDraft, filePc, fileRows, minted>>

\* ---- addEmptyRow(atIndex)
cdAddEmptyRow ==
    /\ CodeOp
    /\ Len(codeRows) < MaxRows
    /\ LET g == generateRuleCode(codeRows, counterRef)
       IN /\ \E at \in 0..Len(codeRows) :
                codeRows' = InsertAt(codeRows, at, CodeRow(g.code, NoId))
          /\ counterRef' = g.counter
          /\ minted' = Append(minted, g.code)
    /\ UNCHANGED <<codeDocs, codeDraft, loadsInFlight, filePc, fileRows>>

\* ---- handleFile(file), up to its await: the handler holds the rows it was
\* rendered with
cdHandleFile ==
    /\ CodeOp
    /\ filePc = "idle"
    /\ filePc' = "reading"
    /\ fileRows' = codeRows
    /\ UNCHANGED <<codeRows, counterRef, codeDocs, codeDraft, loadsInFlight, minted>>

\* (cleaned || []).map(...) of handleFile: n rows, each code generated against
\* the rows the handler holds
RECURSIVE BuiltCodes(_, _, _)
BuiltCodes(existing, counter, n) ==
    IF n = 0 THEN [rows |-> <<>>, counter |-> counter]
    ELSE LET g == generateRuleCode(existing, counter)
             rest == BuiltCodes(existing, g.counter, n - 1)
         IN [rows |-> <<CodeRow(g.code, NoId)>> \o rest.rows, counter |-> rest.counter]

\* ---- handleFile(file), from the await on: the file could not be read (the
\* catch), or n sheet rows are built, appended and written to the draft key
cdHandleFileBuilt ==
    /\ CodeBackground
    /\ filePc = "reading"
    /\ filePc' = "idle"
    /\ fileRows' = <<>>
    /\ \/ UNCHANGED <<codeRows, counterRef, codeDraft, minted>>
       \/ \E n \in 0..MaxParsed :
             LET b == BuiltCodes(fileRows, counterRef, n)
                 combined == codeRows \o b.rows
             IN /\ Len(combined) <= MaxRows
                /\ codeRows' = combined
                /\ counterRef' = b.counter
                /\ codeDraft' = [present |-> TRUE, rows |-> combined]
                /\ minted' = minted \o [i \in 1..n |-> b.rows[i].rule_code]
    /\ UNCHANGED <<codeDocs, loadsInFlight>>

\* ---- deleteRow(localId), its confirm() accepted
cdDeleteRow ==
    /\ CodeOp
    /\ \E i \in 1..Len(codeRows), ok \in BOOLEAN :
          LET target == codeRows[i]
              without == SubSeq(codeRows, 1, i - 1) \o SubSeq(codeRows, i + 1, Len(codeRows))
          IN IF target._id # NoId
             THEN IF ok
                  THEN /\ codeDocs' = SelectSeq(codeDocs, LAMBDA d : d._id # target._id)
                       /\ codeRows' = without
                       /\ loadsInFlight' = loadsInFlight + 1
                  ELSE UNCHANGED <<codeDocs, codeRows, loadsInFlight>>
             ELSE /\ codeRows' = without
                  /\ UNCHANGED <<codeDocs, loadsInFlight>>
    /\ UNCHANGED <<counterRef, codeDraft, filePc, fileRows, minted>>

\* ---- moveRow(localId, dir)
cdMoveRow ==
    /\ CodeOp
    /\ \E i \in 1..Len(codeRows), d \in {-1, 1} :
          LET j == i + d IN
          codeRows' = IF j < 1 \/ j > Len(codeRows) THEN codeRows
                      ELSE [codeRows EXCEPT ![i] = codeRows[j], ![j] = codeRows[i]]
    /\ UNCHANGED <<counterRef, codeDocs, codeDraft, loadsInFlight, filePc, fileRows, minted>>

\* ---- saveDraft and loadDraft
cdSaveDraft ==
    /\ CodeOp
    /\ Len(codeRows) > 0
    /\ codeDraft' = [present |-> TRUE, rows |-> codeRows]
    /\ UNCHANGED <<codeRows, counterRef, codeDocs, loadsInFlight, filePc, fileRows, minted>>

cdLoadDraft ==
    /\ CodeOp
    /\ codeDraft.present
    /\ codeRows' = codeDraft.rows
    /\ UNCHANGED <<counterRef, codeDocs, codeDraft, loadsInFlight, filePc, fileRows, minted>>

CodesNext ==
    \/ cdLoadBackendRules
    \/ cdAddEmptyRow
    \/ cdHandleFile
    \/ cdHandleFileBuilt
    \/ cdDeleteRow
    \/ cdMoveRow
    \/ cdSaveDraft
    \/ cdLoadDraft


\* ------------------------------------------------------------------ pager
\* The pager of either table, over the number of rows it counts.
\* Most rows the pager counts.
MaxShown == 11
\* const DEFAULT_PAGE_SIZE = 12 of the events table
DEFAULT_PAGE_SIZE == 12

\* Math.max(1, Math.ceil(total / pageSize))
totalPages(total, size) ==
    IF total = 0 THEN 1 ELSE ((total + size - 1) \div size)

\* an effect that leaves the page as it is
keepPage(p, pages) == p

\* the clamping effect, the page it leaves: if (page > totalPages)
\* setPage(totalPages) of the rules table; ensurePageInRange of the events
\* table, which adds: if (page < 1) setPage(1)
ensurePageInRange(p, pages) ==
    IF p > pages THEN pages ELSE IF p < 1 THEN 1 ELSE p

\* the pager of a page on which no pager step is taken
PagerIdle ==
    /\ page = 1
    /\ pageSize = 10
    /\ shown = 0
    /\ effectDue = FALSE
    /\ pageLog = "mount"

\* a handler that changes the rows and does not set the page: add, delete,
\* clear, a server load or a draft load of either table, the upload of the
\* rules table
pgRowsChanged ==
    /\ ~effectDue
    /\ \E n \in 0..MaxShown :
          /\ n # shown
          /\ shown' = n
    /\ effectDue' = TRUE
    /\ pageLog' = "rows"
    /\ UNCHANGED <<page, pageSize>>
    /\ UNCHANGED <<rulesVars, eventsVars, ops, pureVars, route, download, codeVars,
                   uploadAlert>>

\* the page-size select: setPageSize(Number(e.target.value)); setPage(1)
pgSetPageSize ==
    /\ ~effectDue
    /\ \E n \in IF route = FrameworkRoute THEN {5, 10, 20, 50} ELSE {8, 12, 20, 50} :
          /\ pageSize' = n
          \* the effect of the rules table depends on pageSize and totalPages
          /\ effectDue' = (route = FrameworkRoute /\ n # pageSize)
    /\ page' = 1
    /\ pageLog' = "size"
    /\ UNCHANGED shown
    /\ UNCHANGED <<rulesVars, eventsVars, ops, pureVars, route, download, codeVars,
                   uploadAlert>>

\* the Prev and Next buttons, disabled at the first and at the last page
pgTurnPage ==
    /\ ~effectDue
    /\ \/ page > 1 /\ page' = (IF page - 1 < 1 THEN 1 ELSE page - 1)
       \/ LET pages == totalPages(shown, pageSize)
          IN page < pages /\ page' = (IF page + 1 > pages THEN pages ELSE page + 1)
    /\ pageLog' = "turn"
    /\ UNCHANGED <<pageSize, shown, effectDue>>
    /\ UNCHANGED <<rulesVars, eventsVars, ops, pureVars, route, download, codeVars,
                   uploadAlert>>

\* events table: the tab buttons, the search box, the two filters and the
\* upload, each followed by setPage(1)
evResetPage ==
    /\ ~effectDue
    /\ route = EventsRoute
    /\ \E n \in 0..MaxShown :
          /\ shown' = n
          /\ effectDue' = (n # shown)
    /\ page' = 1
    /\ pageLog' = "reset"
    /\ UNCHANGED pageSize
    /\ UNCHANGED <<rulesVars, eventsVars, ops, pureVars, route, download, codeVars,
                   uploadAlert>>

\* the clamping effect runs after the render in which a dependency changed
pgEffect ==
    /\ effectDue
    /\ effectDue' = FALSE
    /\ page' = ensurePageInRange(page, totalPages(shown, pageSize))
    /\ pageLog' = IF page' # page THEN "clamped" ELSE "effect"
    /\ UNCHANGED <<pageSize, shown>>
    /\ UNCHANGED <<rulesVars, eventsVars, ops, pureVars, route, download, codeVars,
                   uploadAlert>>

PagerNext ==
    \/ pgRowsChanged
    \/ pgSetPageSize
    \/ pgTurnPage
    \/ evResetPage
    \/ pgEffect

\* --------------------------------------------------------- specifications
NoInput == <<>>
NoDownload == [name |-> "", records |-> <<>>]
PagesInit ==
    /\ RulesInit /\ EventsInit /\ ops = 0 /\ download = NoDownload
    /\ CodesIdle /\ PagerIdle /\ uploadAlert = ""
Init ==
    /\ PagesInit /\ pureIn = NoInput /\ pureOut = <<>>
    /\ route = FrameworkRoute


\* the rules page
SpecRules == Init /\ [][RulesNext]_vars
\* the events page
EventsPageInit ==
    /\ PagesInit /\ pureIn = NoInput /\ pureOut = <<>>
    /\ server = <<>>
    /\ route = EventsRoute
SpecEvents == EventsPageInit /\ [][EventsNext]_vars

\* either table page: the router mounts one page, and only its handlers run
TablesInit ==
    /\ PagesInit /\ pureIn = NoInput /\ pureOut = <<>>
    /\ route \in {FrameworkRoute, EventsRoute}
    /\ route = EventsRoute => server = <<>>
OnFramework == route = FrameworkRoute /\ RulesNext
OnEvents == route = EventsRoute /\ EventsNext
TablesNext == OnFramework \/ OnEvents
SpecTables == TablesInit /\ [][TablesNext]_vars

\* the rules page as mounted, its rows projected to their codes: the mount
\* effect has called loadBackendRules(). A record of GET /rules is its _id, the
\* key that carries its code (rule_code, ruleCode or code; "none": no key
\* does) and the code; the codes of the records are pairwise distinct. The
\* draft key may hold the draft of an earlier session.
CodesInit ==
    /\ RulesInit /\ EventsInit /\ ops = 0 /\ download = NoDownload
    /\ pureIn = NoInput /\ pureOut = <<>>
    /\ server = <<>>
    /\ route = FrameworkRoute
    /\ PagerIdle /\ uploadAlert = ""
    /\ codeRows = <<>>
    /\ counterRef = CounterStart
    /\ codeDocs \in
          {<<>>,
           <<[_id |-> 1, key |-> "rule_code", code |-> RCode(1001)],
             [_id |-> 2, key |-> "rule_code", code |-> RCode(1003)]>>,
           <<[_id |-> 1, key |-> "rule_code", code |-> RCode(7)],
             [_id |-> 2, key |-> "ruleCode", code |-> [pre |-> "AB", num |-> NoDigits]]>>,
           <<[_id |-> 1, key |-> "code", code |-> RCode(1001)]>>}
    /\ codeDraft \in
          {[present |-> FALSE, rows |-> <<>>],
           [present |-> TRUE,
            rows |-> <<CodeRow(RCode(1001), NoId), CodeRow(RCode(1002), NoId)>>]}
    /\ loadsInFlight = 1
    /\ filePc = "idle"
    /\ fileRows = <<>>
    /\ minted = <<>>
SpecCodes == CodesInit /\ [][CodesNext]_vars


\* either table page as mounted, its pager
PagerInit ==
    /\ RulesInit /\ EventsInit /\ ops = 0 /\ download = NoDownload /\ CodesIdle
    /\ pureIn = NoInput /\ pureOut = <<>> /\ uploadAlert = ""
    /\ server = <<>>
    /\ route \in {FrameworkRoute, EventsRoute}
    /\ page = 1
    /\ pageSize = (IF route = FrameworkRoute THEN 10 ELSE DEFAULT_PAGE_SIZE)
    /\ shown = 0
    /\ effectDue = FALSE
    /\ pageLog = "mount"
SpecPager == PagerInit /\ [][PagerNext]_vars

\* ---- the mapping preview (UploadFramework): pure functions applied to drawn inputs
\* normalizeRow(row) under a mapping: row is a function from column names to
\* cells, mapping a function from field keys to a column name ("": no column).
\* The result is a function from the keys the rule carries to their values.
normalizeRow(row, mapping) ==
    LET cell(f) == IF mapping[f] \in DOMAIN row THEN row[mapping[f]] ELSE Undefined
        set == {f \in DOMAIN mapping :
                   mapping[f] # "" /\ (f = "severity" => IsString(cell(f)))}
        used == {mapping[f] : f \in DOMAIN mapping}
        unused == {col \in DOMAIN row : col \notin used}
        value(f) ==
            IF f = "tat_days"
            THEN LET n == ToNumber(cell(f)) IN IF IsFinite(n) THEN n ELSE Null
            ELSE IF f = "severity"
            THEN LET v == LowerCase(Trim(Chars(cell(f)))) IN
                 IF v # <<>> /\ v[1] = "h" THEN High
                 ELSE IF v # <<>> /\ v[1] = "m" THEN Medium
                 ELSE IF v # <<>> /\ v[1] = "l" THEN Low
                 ELSE cell(f)
            ELSE cell(f)
    IN [k \in set \cup (IF unused = {} THEN {} ELSE {"metadata"}) |->
           IF k = "metadata" THEN [col \in unused |-> row[col]] ELSE value(k)]

\* sheet rows over the columns Change, TAT, Sev, Notes, Owner, and mappings of
\* the fields change_reported, tat_days, severity
PreviewCells == {Str(<<"a", "b">>), Str(<<"5">>), Str(<<"h", "i">>), Num("5"), EmptyStr}
PreviewInit ==
    /\ PagesInit
    /\ server = <<>>
    /\ route = FrameworkRoute
    /\ pureOut = <<>>
    /\ \E cols \in SUBSET {"Change", "TAT", "Sev", "Notes"} :
          /\ cols # {}
          /\ pureIn \in [fn : {"normalizeRow"},
                          row : [cols -> PreviewCells],
                          mapping : [change_reported : {"", "Change"},
                                     tat_days : {"", "TAT"},
                                     severity : {"", "Sev", "Owner"}]]

ApplyNormalizeRow ==
    /\ pureOut = <<>>
    /\ pureIn.fn = "normalizeRow"
    /\ pureOut' = <<normalizeRow(pureIn.row, pureIn.mapping)>>
    /\ UNCHANGED <<rulesVars, eventsVars, ops, pureIn, route, download, codeVars, pageVars,
                   uploadAlert>>

SpecPreview == PreviewInit /\ [][ApplyNormalizeRow]_vars

\* ---- header auto-mapping of handleFile, one target field; strings are
\* sequences of characters
\* Object.keys(lowerMap): the lower-cased headers, each once, in the order of
\* their first occurrence
RECURSIVE LowerKeys(_)
LowerKeys(headers) ==
    IF headers = <<>> THEN <<>>
    ELSE LET rest == LowerKeys(SubSeq(headers, 1, Len(headers) - 1))
             k == LowerCase(headers[Len(headers)])
         IN IF \E i \in 1..Len(rest) : rest[i] = k THEN rest ELSE Append(rest, k)

\* the callback of find(...) for the lower-cased header lh; the rules table
\* (table) has one clause more than the mapping preview
HeaderMatches(lh, key, label, table) ==
    \/ lh = key
    \/ Includes(lh, key)
    \/ Includes(label, lh)
    \/ Includes(key, lh)
    \/ table /\ Includes(lh, label)

\* initial[f.key] after the callback of KNOWN_FIELDS.forEach: the header
\* mapped to the field, <<>> with found FALSE if none is
autoMap(headers, key, label, table) ==
    LET keys == LowerKeys(headers)
        hits == {i \in 1..Len(keys) : HeaderMatches(keys[i], key, label, table)}
    IN IF hits = {} THEN [found |-> FALSE, header |-> <<>>]
       ELSE LET possible == keys[CHOOSE i \in hits : \A j \in hits : i <= j]
                \* lowerMap[possible]: the last header with that lower-cased text
                last == CHOOSE i \in 1..Len(headers) :
                            /\ LowerCase(headers[i]) = possible
                            /\ \A j \in (i + 1)..Len(headers) : LowerCase(headers[j]) # possible
            IN IF possible = <<>> THEN [found |-> FALSE, header |-> <<>>]
               ELSE [found |-> TRUE, header |-> headers[last]]

\* the field the harness maps: key "tags", label "Tags"
TagsKey == <<"t", "a", "g", "s">>
\* headers a sheet may carry
HeaderPool ==
    {<<"t", "a", "g", "s">>, <<"T", "a", "g", "s">>, <<"x", "t", "a", "g", "s">>,
     <<"t", "a", "g">>, <<"n", "o">>, <<>>}
\* most headers of a sheet
MaxHeaders == 3

AutoMapInit ==
    /\ PagesInit
    /\ server = <<>>
    /\ route = FrameworkRoute
    /\ pureOut = <<>>
    /\ \E n \in 0..MaxHeaders :
          pureIn \in [fn : {"autoMap"},
                      table : BOOLEAN,
                      headers : {h \in [1..n -> HeaderPool] :
                                    \A i, j \in 1..n : i # j => h[i] # h[j]}]

ApplyAutoMap ==
    /\ pureOut = <<>>
    /\ pureIn.fn = "autoMap"
    /\ pureOut' = <<autoMap(pureIn.headers, TagsKey, LowerCase(TagsKey), pureIn.table)>>
    /\ UNCHANGED <<rulesVars, eventsVars, ops, pureIn, route, download, codeVars, pageVars,
                   uploadAlert>>

SpecAutoMap == AutoMapInit /\ [][ApplyAutoMap]_vars

\* ---- normalizeDate, applied to drawn cells
\* An instant is midnight of the day y-m-d on a clock off minutes ahead of UTC;
\* toISOString writes it in UTC, so two instants are the same text exactly when
\* they are the same tuple (off is 0 or the browser's offset).
AtMidnight(y, m, d, off) == <<"at", y, m, d, off>>

\* XLSX.SSF.parse_date_code on the serial numbers of the sheet's dates
\* (1900 date system): 2024-03-05, 2024-03-25, 2024-05-03
SerialDate ==
    (45356 :> <<2024, 3, 5>>) @@ (45376 :> <<2024, 3, 25>>) @@ (45415 :> <<2024, 5, 3>>)

\* Date.parse of the date-only ISO form YYYY-MM-DD: midnight UTC, NaN for a
\* month outside 1..12 (days are kept within 1..28, where no engine differs)
IsoParse(parts) ==
    IF parts[1] >= 1000 /\ parts[2] \in 1..12 /\ parts[3] \in 1..28
    THEN AtMidnight(parts[1], parts[2], parts[3], 0)
    ELSE NaN

\* Date.parse(s) of a text cell. A text of three numbers is held as its
\* separator and its parts, the year written with 4 digits; any other text
\* has no parts. The ISO form is specified; every other form is left to the
\* engine, which either rejects it (engine "nan") or reads it as the engines
\* of the browsers do, month first and in local time (engine "monthFirst").
DateParse(v, engine, tz) ==
    IF Len(v.parts) # 3 THEN NaN
    ELSE IF v.sep = "-" /\ v.parts[1] >= 1000 THEN IsoParse(v.parts)
    ELSE IF engine = "nan" THEN NaN
    ELSE IF v.parts[1] >= 1000
         THEN IF v.parts[2] \in 1..12 /\ v.parts[3] \in 1..28
              THEN AtMidnight(v.parts[1], v.parts[2], v.parts[3], tz) ELSE NaN
         ELSE IF v.parts[1] \in 1..12 /\ v.parts[2] \in 1..28
              THEN AtMidnight(v.parts[3], v.parts[1], v.parts[2], tz) ELSE NaN

normalizeDate(v, engine, tz) ==
    IF v.kind = "empty" THEN Null
    ELSE IF v.kind = "date" THEN v.at
    ELSE IF v.kind = "number" THEN
        LET date == SerialDate[v.n] IN AtMidnight(date[1], date[2], date[3], 0)
    ELSE LET parsed == DateParse(v, engine, tz) IN
         IF parsed # NaN THEN parsed
         ELSE IF Len(v.parts) = 3 THEN
             LET a == v.parts[1]
                 b == v.parts[2]
                 c == v.parts[3]
                 p == IF a >= 1000 THEN IsoParse(<<a, b, c>>) ELSE IsoParse(<<c, b, a>>)
             IN IF p # NaN THEN p ELSE Null
         ELSE Null

\* cells of a date column: nothing, a Date, an invalid Date (its text is
\* "Invalid Date"), a serial number, a three-part text, any other text
DateCells(tz) ==
    LET days == {3, 5, 25}
    IN {[kind |-> "empty"], [kind |-> "text", sep |-> "", parts |-> <<>>],
        [kind |-> "invalidDate", sep |-> "", parts |-> <<>>]}
       \cup {[kind |-> "date", at |-> AtMidnight(2024, 3, d, off)] : d \in {5, 25}, off \in {0, tz}}
       \cup {[kind |-> "number", n |-> n] : n \in DOMAIN SerialDate}
       \cup {[kind |-> "text", sep |-> sep, parts |-> <<2024, m, d>>] :
                 sep \in {"-", "/", "."}, m \in days, d \in days}
       \cup {[kind |-> "text", sep |-> sep, parts |-> <<d, m, 2024>>] :
                 sep \in {"-", "/", "."}, m \in days, d \in days}

DatesInit ==
    /\ PagesInit
    /\ server = <<>>
    /\ route = EventsRoute
    /\ pureOut = <<>>
    /\ \E engine \in {"nan", "monthFirst"}, tz \in {0, 330} :
          \E v \in DateCells(tz) :
              pureIn = [fn |-> "normalizeDate", v |-> v, engine |-> engine, tz |-> tz]

ApplyNormalizeDate ==
    /\ pureOut = <<>>
    /\ pureIn.fn = "normalizeDate"
    /\ pureOut' = <<normalizeDate(pureIn.v, pureIn.engine, pureIn.tz)>>
    /\ UNCHANGED <<rulesVars, eventsVars, ops, pureIn, route, download, codeVars, pageVars,
                   uploadAlert>>

SpecDates == DatesInit /\ [][ApplyNormalizeDate]_vars

\* ---- mapRowToEvent's tier, applied to drawn search results
ClassifyTexts == {EmptyStr, Str(<<" ", "a", " ">>), Str(<<"a", "b">>), Str(<<" ", "a", "b">>)}
ClassifyScores == {NoScore, 0, 1, 149, 150, 151, 349, 350, 351, 1000}
ClassifyInputs ==
    [hasFuse : BOOLEAN, text : ClassifyTexts,
     res : {NoHit} \cup {Hit(Catalog[k], sc) : k \in {1, 2}, sc \in ClassifyScores}]

ClassifyInit ==
    /\ PagesInit
    /\ server = <<>>
    /\ pureIn \in ClassifyInputs
    /\ pureOut = <<>>
    /\ route = EventsRoute

ApplyClassify ==
    /\ pureOut = <<>>
    /\ pureOut' = <<Classify(pureIn.hasFuse, pureIn.text, pureIn.res)>>
    /\ UNCHANGED <<rulesVars, eventsVars, ops, pureIn, route, download, codeVars, pageVars,
                   uploadAlert>>

SpecClassify == ClassifyInit /\ [][ApplyClassify]_vars

\* ---- the rules table with genLocalId as the code computes it: a value derived
\* from Math.random(), which may be any value of its range, one in use included
RandomIds == 1..MaxRows

addEmptyRowRandom ==
    /\ UserOp
    /\ UNCHANGED eventsVars
    /\ Len(rows) < MaxRows
    /\ \E id \in RandomIds, at \in 0..Len(rows) :
          rows' = InsertAt(rows, at,
                           [__localId |-> id, _id |-> NoId,
                            change_reported |-> EmptyStr, tat_days |-> EmptyStr,
                            severity |-> EmptyStr, _errors |-> {}])
    /\ RowSync

IdsNext ==
    \/ addEmptyRowRandom
    \/ EditChangeReported
    \/ EditTat
    \/ EditSeverity
    \/ moveRow
    \/ deleteRow
    \/ validateAll
SpecIds == Init /\ [][IdsNext]_vars


\* ------------------------------------------------------------ rules table
\* the calls of the running batch that were answered with success
OkCalls == {i \in 1..Len(upCalls) : upCalls[i].ok}

\* C1: while upsertAll runs, the calls it has issued are exactly one per row of
\* the collection it was started on, in the collection's order: PUT /rules/<_id>
\* for a row that carries a server id, POST /rules for a row that carries none;
\* when the loop is left every row has had its call.
C1_Calls ==
    /\ upPc = "loop" => Len(upCalls) = upIdx - 1 /\ upIdx <= Len(upSnap)
    /\ upPc = "reload" => Len(upCalls) = Len(upSnap)
    /\ upPc = "idle" => upCalls = <<>>
    /\ \A i \in 1..Len(upCalls) :
          /\ upCalls[i].row = upSnap[i].__localId
          /\ upSnap[i]._id # NoId => upCalls[i].method = "PUT" /\ upCalls[i].id = upSnap[i]._id
          /\ upSnap[i]._id = NoId => upCalls[i].method = "POST"
C1_Started ==
    upPc = "idle" /\ upPc' = "loop" =>
        /\ Len(upSnap') = Len(rows)
        /\ \A i \in 1..Len(rows) :
              upSnap'[i].__localId = rows[i].__localId /\ upSnap'[i]._id = rows[i]._id
C1_OneCallPerRow == []C1_Calls /\ [][C1_Started]_vars

\* a batch that has updated one row and created another
C1_Witness ==
    /\ upPc = "reload"
    /\ \E i, j \in 1..Len(upCalls) :
          i < j /\ upCalls[i].method = "PUT" /\ upCalls[j].method = "POST"

\* C2: a call that fails does not end the batch, the next row is attempted; and
\* the count the handler stores is the number of calls that succeeded.
C2_Continues ==
    upPc = "loop" /\ upCalls' # upCalls /\ upIdx < Len(upSnap) =>
        upPc' = "loop" /\ upIdx' = upIdx + 1
C2_Count ==
    upPc = "reload" /\ upPc' = "idle" =>
        Len(upCalls) = Len(upSnap) /\ importedCount' = Cardinality(OkCalls)
C2_FailureDoesNotAbort == [][C2_Continues /\ C2_Count]_vars

\* three rows, the call of the second failed, the third was still attempted
C2_Witness ==
    /\ upPc = "reload"
    /\ Len(upCalls) = 3
    /\ upCalls[1].ok /\ ~upCalls[2].ok /\ upCalls[3].ok
    /\ upResults = 2

\* a row without its error map
NoErrors(r) == [r EXCEPT !._errors = {}]

\* C3: a click on Save that finds a validation error issues no call, leaves the
\* draft key and loadingImport alone, and changes nothing of the rows but their
\* error maps.
C3_Step ==
    upsertAll /\ ~AllValid =>
        /\ UNCHANGED <<draft, savedDraftExists, loadingImport, importedCount, server,
                       upPc, upSnap, upIdx, upResults, upCalls, delPc, delTarget>>
        /\ loadingImport' = FALSE
        /\ upPc' = "idle"
        /\ Len(rows') = Len(rows)
        /\ \A i \in 1..Len(rows) : NoErrors(rows'[i]) = NoErrors(rows[i])
        /\ \E i \in 1..Len(rows) : rows'[i]._errors # {}
C3_InvalidSaveIsLocal == [][C3_Step]_vars

\* rows marked invalid, a draft still stored, nothing running
C3_Witness ==
    /\ ~AllValid
    /\ \E i \in 1..Len(rows) : rows[i]._errors # {}
    /\ draft.present
    /\ ~loadingImport
    /\ upPc = "idle"

\* C4: deleteRow drops a row without server id on the spot and issues no call;
\* for a row with a server id it issues DELETE and keeps the row, which leaves
\* the collection in the step in which that call succeeds and stays when it fails.
C4_Click ==
    deleteRow =>
        /\ server' = server
        /\ delPc' = "delete" =>
              /\ rows' = rows
              /\ delTarget'.sid # NoId
              /\ \E i \in 1..Len(rows) :
                    rows[i].__localId = delTarget'.lid /\ rows[i]._id = delTarget'.sid
        /\ rows' # rows =>
              /\ delPc' = "idle"
              /\ \E i \in 1..Len(rows) :
                    rows[i]._id = NoId /\ rows' = RemoveRow(rows, rows[i].__localId)
C4_Settled ==
    deleteSettle =>
        /\ delPc' = "reload" =>
              /\ ~HasRow(rows', delTarget.lid)
              /\ rows' = RemoveRow(rows, delTarget.lid)
              /\ \A i \in 1..Len(server') : server'[i]._id # delTarget.sid
        /\ delPc' # "reload" => rows' = rows /\ server' = server /\ delPc' = "idle"
C4_DeleteRow == [][C4_Click /\ C4_Settled]_vars

\* the DELETE succeeded and the row is gone
C4_Witness ==
    /\ delPc = "reload"
    /\ delTarget.sid # NoId
    /\ ~HasRow(rows, delTarget.lid)
    /\ ~HasDoc(delTarget.sid)

\* ----------------------------------------------------------- events table
\* C5: POST /alerts is issued only behind a POST /events that succeeded, and at
\* most once; when it fails the rows keep their saved marking, nothing is posted
\* again, and the result message carries the event count with zero alerts.
C5_Order ==
    /\ Len(saveCalls) <= 2
    /\ \A i \in 1..Len(saveCalls) :
          saveCalls[i].url = "/alerts" =>
              i = 2 /\ saveCalls[1] = [url |-> "/events", st |-> "ok"]
    /\ savePc = "alerts" => Len(saveCalls) = 2 /\ saveCalls[2].url = "/alerts"
C5_AlertsFailed ==
    saveAlertsSettle /\ saveCalls'[2].st = "failed" =>
        /\ newRows' = newRows
        /\ oldRows' = oldRows
        /\ evServer' = evServer
        /\ savePc' = "idle"
        /\ importResult' = [kind |-> "saved", events |-> Len(saveAll), alerts |-> 0]
C5_AlertsAfterEvents == []C5_Order /\ [][C5_AlertsFailed]_vars

\* the events were stored and marked, the alerts call failed
C5_Witness ==
    /\ saveCalls = <<[url |-> "/events", st |-> "ok"], [url |-> "/alerts", st |-> "failed"]>>
    /\ importResult.kind = "saved" /\ importResult.events > 0 /\ importResult.alerts = 0
    /\ \E r \in Range(newRows) : r._saved /\ r.matchedRule # NoRule

\* alerts holds one payload for every row of rs that carries a rule and nothing else
PayloadsFor(rs, alerts) ==
    /\ \A k \in 1..Len(rs) :
          Cardinality({i \in 1..Len(alerts) : alerts[i].row = rs[k].__localId})
              = IF rs[k].matchedRule # NoRule THEN 1 ELSE 0
    /\ \A i \in 1..Len(alerts) :
          \E k \in 1..Len(rs) :
             /\ alerts[i].row = rs[k].__localId
             /\ alerts[i].status = "Pending"
             /\ alerts[i].matched_rule = rs[k].matchedRule
             /\ alerts[i].severity = rs[k].matchedRule.severity
             /\ alerts[i].tat_days = rs[k].matchedRule.tat_days

\* POST /events of the running save has just succeeded
EventsStored == saveEventsSettle /\ saveCalls'[1].st = "ok"

\* C6 (as stated): the alert payloads are one per row of either partition that
\* carries a rule, with status "Pending" and the rule's severity and turnaround.
C6_BothPartitions == [][EventsStored => PayloadsFor(saveAll, matchedAlerts')]_vars

\* C6 (amended): the alert payloads are one per row of the new partition that
\* carried a rule when Save All was clicked, none for a row without rule and
\* none for a row of the old partition; each has status "Pending" and the
\* rule's severity and turnaround; POST /alerts is issued iff there is a payload.
C6_NewPartitionOnly ==
    [][EventsStored =>
          /\ PayloadsFor(saveNew, matchedAlerts')
          /\ (savePc' = "alerts") = (Len(matchedAlerts') > 0)]_vars

\* payloads were built while a row of the old partition carried a rule
C6_Witness ==
    /\ savePc = "alerts"
    /\ Len(matchedAlerts) > 0
    /\ \E r \in Range(saveAll) : r.sheetType = "old" /\ r.matchedRule # NoRule
    /\ \E r \in Range(saveNew) : r.matchStatus = "low"

\* C8: a pick in the manual-match dialog changes the selected row only: a rule
\* gives matchedRule the rule, tier "matched" and distance 0; "no rule" gives
\* null, "unmatched" and no distance; the selection is cleared, the dialog closed.
C8_Patched(r, q) ==
    /\ q = [r EXCEPT !.matchedRule = q.matchedRule, !.matchStatus = q.matchStatus,
                     !.score = q.score]
    /\ \/ q.matchedRule \in Range(rules) /\ q.matchStatus = "matched" /\ q.score = 0
       \/ q.matchedRule = NoRule /\ q.matchStatus = "unmatched" /\ q.score = NoScore
C8_Rows(rs, qs, sel) ==
    /\ Len(qs) = Len(rs)
    /\ \A i \in 1..Len(rs) :
          IF rs[i].__localId = sel.lid /\ rs[i].sheetType = sel.sheetType
          THEN C8_Patched(rs[i], qs[i])
          ELSE qs[i] = rs[i]
C8_Step ==
    handleManualMatchPicked /\ selectedForManualMatch # NoSelection =>
        /\ C8_Rows(newRows, newRows', selectedForManualMatch)
        /\ C8_Rows(oldRows, oldRows', selectedForManualMatch)
        /\ selectedForManualMatch' = NoSelection
        /\ matchModalOpen' = FALSE
C8_ManualOverride == [][C8_Step]_vars

\* a row matched by hand (distance 0 is nothing an uploaded row starts with)
C8_Witness ==
    /\ selectedForManualMatch = NoSelection
    /\ ~matchModalOpen
    /\ \E r \in Range(newRows) \cup Range(oldRows) :
          r.matchStatus = "matched" /\ r.score = 0 /\ r.matchedRule \in Range(rules)

\* ------------------------------------------------------------------ tier
\* the best candidate's distance can be used: there is an index, the trimmed text
\* has at least two characters, a candidate was found and it carries a score
Usable(in) ==
    /\ in.hasFuse
    /\ Len(Trim(Chars(in.text))) >= 2
    /\ in.res.found
    /\ in.res.score # NoScore

\* C7: the tier is a total function of the best distance d: d < 0.15 gives
\* "matched", 0.15 <= d < 0.35 gives "low", both with the candidate as rule and d
\* as distance; every other case (d >= 0.35, no candidate, no score, no index,
\* a trimmed text of fewer than two characters) gives "unmatched", a null rule
\* and no distance.
C7_Tier ==
    pureOut # <<>> =>
        LET out == pureOut[1]
            d == pureIn.res.score
        IN /\ Usable(pureIn) /\ d < 150 =>
                 out = [matchedRule |-> pureIn.res.item, matchStatus |-> "matched", score |-> d]
           /\ Usable(pureIn) /\ 150 <= d /\ d < 350 =>
                 out = [matchedRule |-> pureIn.res.item, matchStatus |-> "low", score |-> d]
           /\ ~Usable(pureIn) \/ d >= 350 =>
                 out = [matchedRule |-> NoRule, matchStatus |-> "unmatched", score |-> NoScore]

\* a candidate at distance exactly 0.15 is of tier "low"
C7_Witness ==
    /\ pureOut # <<>>
    /\ Usable(pureIn)
    /\ pureIn.res.score = 150
    /\ pureOut[1].matchStatus = "low"

\* ----------------------------------------------------------------- drafts
\* a row without its client-local id
NoLocalId(r) == [r EXCEPT !.__localId = 0]

\* C9: the rows a Load Draft yields from the draft a Save Draft has just stored
\* are the saved rows field by field, server id included; only the client-local
\* ids differ, and they are new.
C9_Step ==
    saveDraft =>
        LET loaded == LoadedRows(draft', LocalIdsInUse) IN
        /\ Len(loaded) = Len(rows)
        /\ \A i \in 1..Len(rows) :
              /\ NoLocalId(loaded[i]) = NoLocalId(rows[i])
              /\ loaded[i].__localId \notin {rows[k].__localId : k \in 1..Len(rows)}
C9_DraftRoundTrip == [][C9_Step]_vars

\* the events draft as loadDraft reads it: a missing list reads as empty
DraftOld(d) == IF d.hasOld THEN d.old ELSE <<>>

\* C10: whenever the events draft key is written, by Save Draft or by an upload,
\* the stored draft holds the full collection of both partitions.
C10_Step ==
    (saveDraftLocal \/ evHandleFile) =>
        /\ evDraft'.present
        /\ evDraft'.new = EvJsonRows(newRows')
        /\ DraftOld(evDraft') = EvJsonRows(oldRows')
C10_DraftIsFull == [][C10_Step]_vars


\* ------------------------------------------------------------------ clear
\* C11: when clear completes the collection is empty and the draft key is gone
\* (rules table: and Load Draft is disabled); a load draft that finds no draft
\* changes no state.
C11_Step ==
    /\ clearAll => rows' = <<>> /\ ~draft'.present /\ ~savedDraftExists'
    /\ evClear => newRows' = <<>> /\ oldRows' = <<>> /\ ~evDraft'.present
    /\ loadDraft /\ ~draft.present => UNCHANGED rulesVars
    /\ evLoadDraft /\ ~evDraft.present => UNCHANGED eventsVars
C11_ClearRemovesDraft == [][C11_Step]_vars

\* the events table cleared after its draft had been written and loaded
C11_Witness ==
    /\ route = EventsRoute
    /\ importResult.kind = "draft"
    /\ newRows = <<>> /\ oldRows = <<>>
    /\ ~evDraft.present

\* ----------------------------------------------------------------- export
\* C12: an export changes neither the rows nor the stored draft nor the remote
\* store, and no exported record carries a client-local id or an error map, in
\* the rules table and in the events table alike.
C12_Step ==
    exportJson \/ exportCurrentTabJson =>
        /\ UNCHANGED <<rulesVars, eventsVars>>
        /\ \A i \in 1..Len(download'.records) :
              DOMAIN download'.records[i] \cap {"__localId", "_errors"} = {}
C12_ExportStripsIds == [][C12_Step]_vars

\* ------------------------------------------------------------ identifiers
\* the client-local ids of a collection are pairwise distinct
UniqueLocalIds(rs) ==
    \A i, j \in 1..Len(rs) : i # j => rs[i].__localId # rs[j].__localId

\* C13: in every reachable state no two rows of a table carry the same
\* client-local id.
C13_UniqueLocalIds == UniqueLocalIds(rows) /\ UniqueLocalIds(newRows \o oldRows)

\* ------------------------------------------------------------- rule codes
UniqueCodes(rs) ==
    \A i, j \in 1..Len(rs) : i # j => rs[i].rule_code # rs[j].rule_code

\* C14: with the server's records carrying pairwise distinct codes, in every
\* reachable state of the rules table no two rows carry the same rule_code,
\* and no code has been minted twice.
C14_UniqueRuleCodes == UniqueCodes(codeRows) /\ \A i, j \in 1..Len(minted) : i # j => minted[i] # minted[j]

\* the code the last call of generateRuleCode returned
LastMinted == minted'[Len(minted')]

\* C15 as stated: the code minted for an inserted row is R-<n>, n one more than
\* the highest numeric suffix among the codes of the rows in the collection.
C15_Step0 ==
    cdAddEmptyRow /\ Nums(codeRows) # {} =>
        LastMinted = RCode(Max(Nums(codeRows)) + 1)
C15_Step ==
    cdAddEmptyRow =>
        LET nums == Nums(codeRows)
            n == LastMinted.num
        IN /\ LastMinted.pre = "R-"
           /\ n >= counterRef
           /\ nums # {} => n > Max(nums)
           /\ n = counterRef \/ (nums # {} /\ n = Max(nums) + 1)
           /\ counterRef' = n + 1
           /\ \E i \in 1..Len(codeRows') :
                 codeRows'[i] = CodeRow(LastMinted, NoId)
OnlyPatched(rs, rs2, lid, F) ==
    /\ Len(rs2) = Len(rs)
    /\ \A i \in 1..Len(rs) :
          IF rs[i].__localId = lid
          THEN /\ DOMAIN rs2[i] = DOMAIN rs[i]
               /\ \A f \in DOMAIN rs[i] \ F : rs2[i][f] = rs[i][f]
          ELSE rs2[i] = rs[i]

C16_Rules(F) ==
    \/ \E i \in 1..Len(rows) : OnlyPatched(rows, rows', rows[i].__localId, F)
    \/ rows' = rows

C16_Events ==
    LET lid == selectedForManualMatch.lid
        F == {"matchedRule", "matchStatus", "score"}
    IN IF selectedForManualMatch.sheetType = "new"
       THEN OnlyPatched(newRows, newRows', lid, F) /\ oldRows' = oldRows
       ELSE OnlyPatched(oldRows, oldRows', lid, F) /\ newRows' = newRows

\* C16: updateRow(id, patch) changes only the named fields of the rows whose
\* client-local identifier is id: every other row, the order and the count of
\* the rows are as before, and with no such row the collection is unchanged.
\* Rules table: the cell editors; events table: the pick of the match dialog,
\* which patches the partition of the selected row.
C16_Step ==
    /\ EditChangeReported => C16_Rules({"change_reported"})
    /\ EditTat => C16_Rules({"tat_days"})
    /\ EditSeverity => C16_Rules({"severity"})
    /\ handleManualMatchPicked /\ selectedForManualMatch # NoSelection => C16_Events
    /\ handleManualMatchPicked /\ selectedForManualMatch # NoSelection
          /\ ~HasRow(newRows \o oldRows, selectedForManualMatch.lid)
          => newRows' = newRows /\ oldRows' = oldRows
RowBag(rs) == [r \in Range(rs) |-> Cardinality({i \in 1..Len(rs) : rs[i] = r})]

C17_State ==
    \* 0 is an identifier no row carries
    /\ \A dir \in {"up", "down"} : movedRows(rows, 0, dir) = rows
    /\ Len(rows) > 0 =>
          /\ movedRows(rows, rows[1].__localId, "up") = rows
          /\ movedRows(rows, rows[Len(rows)].__localId, "down") = rows
    /\ \A i \in 2..Len(rows) :
          LET lid == rows[i].__localId
              up == movedRows(rows, lid, "up")
          IN /\ up = [rows EXCEPT ![i] = rows[i - 1], ![i - 1] = rows[i]]
             /\ movedRows(up, lid, "down") = rows
    /\ \A i \in 1..(Len(rows) - 1) :
          movedRows(rows, rows[i].__localId, "down")
              = [rows EXCEPT ![i] = rows[i + 1], ![i + 1] = rows[i]]

C17_Step ==
    moveRow =>
        /\ RowBag(rows') = RowBag(rows)
        /\ \/ rows' = rows
           \/ \E i \in 1..(Len(rows) - 1) :
                 rows' = [rows EXCEPT ![i] = rows[i + 1], ![i + 1] = rows[i]]

\* C17: moveRow swaps a row with its immediate predecessor (up) or successor
\* (down); it changes nothing for the first row moved up, the last row moved
\* down and an unknown identifier; the rows are the same rows before and
\* after; and a row that is not the first, moved up and then down, leaves the
\* order as it was.
C17_MoveRow == []C17_State /\ [][C17_Step]_vars

\* the two loaded server rows have changed places
C17_Witness ==
    /\ route = FrameworkRoute
    /\ Len(rows) = 2
    /\ rows[1]._id = 2
    /\ rows[2]._id = 1

\* ------------------------------------------------------------------ pager
\* C18: once the clamping effect has run, the page of either table lies
\* between 1 and max(1, ceil(rows counted / pageSize)).
C18_PageInRange ==
    ~effectDue => 1 <= page /\ page <= totalPages(shown, pageSize)

\* rows were removed while a later page was shown, and the effect has moved
\* the page back to the last one
C18_Witness ==
    /\ ~effectDue
    /\ pageLog = "clamped"
    /\ shown > 0
    /\ page = totalPages(shown, pageSize)
    /\ page > 1

\* ------------------------------------------------------------- validation
\* the fields of row r that are in error, by its current values: change_reported
\* empty, tat_days non-blank and not a number, severity present and not
\* normalizable to High, Medium or Low
C19_Errors(r) ==
    {f \in {"change_reported"} :
        r.change_reported \in {Null, Undefined} \/ Trim(Chars(r.change_reported)) = <<>>}
    \cup {f \in {"tat_days"} :
        r.tat_days \notin {EmptyStr, Null, Undefined} /\ ToNumber(r.tat_days) = NaN}
    \cup {f \in {"severity"} :
        Truthy(r.severity) /\ normalizeSeverity(r.severity) \notin SEVERITY_OPTIONS}

\* of every row in the collection: validation gives the errors of its current
\* values whatever errors it carries; validated again it is as validated
\* once; and with tat_days not a number, the same row with tat_days 5 loses
\* that error and keeps the others
C19_State ==
    \A i \in 1..Len(rows) :
        LET r == rows[i]
            v == validateRow(r)
            fixed == validateRow([v EXCEPT !.tat_days = ToNumber(Str(<<"5">>))])
        IN /\ v._errors = C19_Errors(r)
           /\ validateRow(v) = v
           /\ r.tat_days = NaN =>
                 /\ "tat_days" \in v._errors
                 /\ fixed._errors = v._errors \ {"tat_days"}

C19_Validated ==
    /\ Len(rows') = Len(rows)
    /\ \A i \in 1..Len(rows) :
          /\ rows'[i]._errors = C19_Errors(rows[i])
          /\ \A f \in DOMAIN rows[i] \ {"_errors", "severity"} : rows'[i][f] = rows[i][f]

C19_Step ==
    /\ validateAll => C19_Validated
    /\ upsertAll =>
          /\ C19_Validated
          /\ upPc' = "loop" <=> \A i \in 1..Len(rows') : rows'[i]._errors = {}

\* C19: validateAll replaces the error map of every row by the one its current
\* values give (change_reported empty; tat_days non-blank and not a number;
\* severity present and not normalizable) and returns true exactly when every
\* map is empty (Save enters its loop exactly then); validating twice gives
\* what validating once gives; and a row whose tat_days is corrected to 5
\* loses the tat_days error and keeps its other errors.
C19_ValidateAll == []C19_State /\ [][C19_Step]_vars

\* a validated row with an empty change_reported and a tat_days typed as text
C19_Witness ==
    /\ route = FrameworkRoute
    /\ \E i \in 1..Len(rows) :
          /\ rows[i].tat_days = NaN
          /\ rows[i]._errors = {"change_reported", "tat_days"}

\* ----------------------------------------------------------------- upload
\* C20: an upload whose file cannot be decoded ends with the error alert and
\* leaves the rows, the stored draft, the page and every other piece of state
\* of the table as they were: no row of it is committed.
C20_Step ==
    handleFileFailed \/ evHandleFileFailed =>
        /\ uploadAlert' = ParseAlert
        /\ UNCHANGED <<rulesVars, eventsVars, pageVars>>
C20_FailedUploadIsInert == [][C20_Step]_vars

\* an upload has failed on the events table after one that was committed, whose
\* row and draft are in place
C20_Witness ==
    /\ route = EventsRoute
    /\ uploadAlert = ParseAlert
    /\ Len(newRows) = 1
    /\ evDraft.present
    /\ ops = 2

\* --------------------------------------------------------- uploaded columns
\* the mapping preview keeps the cell of every column no field is mapped to
\* under the rule's metadata
C21_PreviewKeeps ==
    pureOut # <<>> /\ pureIn.fn = "normalizeRow" =>
        LET rule == pureOut[1]
            used == {pureIn.mapping[f] : f \in DOMAIN pureIn.mapping}
        IN \A col \in DOMAIN pureIn.row \ used :
              /\ "metadata" \in DOMAIN rule
              /\ col \in DOMAIN rule.metadata
              /\ rule.metadata[col] = pureIn.row[col]

\* C21: every row the rules table builds from an uploaded sheet row keeps the
\* cell of the column no field is mapped to (Notes) under its metadata.
C21_Step ==
    handleFile =>
        \E c \in ParsedRuleCells :
            LET r == rows'[Len(rows')]
            IN /\ r.change_reported = NullishOr(c.text, EmptyStr)
               /\ "metadata" \in DOMAIN r
               /\ r.metadata.notes = c.notes
C21_UnmappedColumnsKept == [][C21_Step]_vars

\* ---------------------------------------------------------- header mapping
\* C22: a field is mapped to a header that equals its key case-insensitively
\* whenever the sheet has such a header, whatever headers come before it; a
\* header that only substring-matches is taken only when no header equals the
\* key.
C22_ExactFirst ==
    pureOut # <<>> /\ pureIn.fn = "autoMap" =>
        ((\E i \in 1..Len(pureIn.headers) : LowerCase(pureIn.headers[i]) = TagsKey)
            => pureOut[1].found /\ LowerCase(pureOut[1].header) = TagsKey)

\* ------------------------------------------------------------------- dates
\* the calendar day a cell denotes when its text is read as the claim reads
\* it: day first unless the first part has 4 digits
C23_Day(v) ==
    IF v.kind = "number" THEN SerialDate[v.n]
    ELSE IF v.parts[1] >= 1000 THEN v.parts
    ELSE <<v.parts[3], v.parts[2], v.parts[1]>>

\* a serial number, YYYY-MM-DD, DD/MM/YYYY or DD-MM-YYYY of a day of the calendar
C23_Encodes(v) ==
    \/ v.kind = "number"
    \/ /\ v.kind = "text" /\ Len(v.parts) = 3
       /\ \/ v.parts[1] >= 1000 /\ v.sep = "-"
          \/ v.parts[1] < 1000 /\ v.sep \in {"/", "-"}
       /\ C23_Day(v)[2] \in 1..12

\* C23: normalizeDate returns null or an instant for every cell, and for a
\* calendar day given as a date object, a serial number, YYYY-MM-DD,
\* DD/MM/YYYY or DD-MM-YYYY it returns the one instant of that day (midnight
\* UTC), a three-part text being read day first unless its first part has 4
\* digits.
C23_SameInstant ==
    pureOut # <<>> /\ pureIn.fn = "normalizeDate" =>
        /\ pureIn.v.kind = "date" => pureOut[1] = pureIn.v.at
        /\ C23_Encodes(pureIn.v) =>
              LET day == C23_Day(pureIn.v)
              IN pureOut[1] = AtMidnight(day[1], day[2], day[3], 0)

\* ------------------------------------------------------------- fuzzy index
\* C24: once the catalog has been loaded into the page's state, every upload
\* is mapped against an index built from that catalog.
C24_Step == evHandleFile /\ Len(rules) > 0 => fuseRef = rules
C24_IndexFollowsCatalog == [][C24_Step]_vars

\* ------------------------------------------------- edits during a batch save
\* the rows whose Change Reported was edited after Save was clicked
C25_Edited ==
    {i \in 1..Len(rows) :
        \E j \in 1..Len(upSnap) : /\ upSnap[j].__localId = rows[i].__localId
                                   /\ upSnap[j].change_reported # rows[i].change_reported}

\* C25: a cell edited while a batch save is in flight still holds the edited
\* value in memory once the save and its reload have completed.
C25_Step ==
    upsertReload =>
        \A i \in C25_Edited :
            \E k \in 1..Len(rows') : rows'[k].change_reported = rows[i].change_reported
C25_EditSurvivesSave == [][C25_Step]_vars

\* ------------------------------------------------ identifiers after a save
\* the calls of the finished loop that succeeded and whose row is still in
\* memory, its record not deleted since
C26_Succeeded ==
    {j \in 1..Len(upCalls) :
        /\ upCalls[j].ok
        /\ \E i \in 1..Len(rows) : rows[i].__localId = upCalls[j].row
        /\ upCalls[j].method = "PUT" => HasDoc(upCalls[j].id)}

\* C26: when upsertAll completes, every row whose create or update succeeded
\* is in memory with its server id (the id it was updated under, or for a
\* created row an id next to the text that was sent).
C26_Step ==
    upsertReload =>
        \A j \in C26_Succeeded :
            \E k \in 1..Len(rows') :
                /\ rows'[k]._id # NoId
                /\ IF upCalls[j].method = "PUT" THEN rows'[k]._id = upCalls[j].id
                   ELSE rows'[k].change_reported = upSnap[j].change_reported
C26_SavedRowsCarryIds == [][C26_Step]_vars

\* ------------------------------------------------------ append-only upload
\* every row sits in the partition of its origin
C27_Tagged ==
    /\ \A i \in 1..Len(newRows) : newRows[i].sheetType = "new"
    /\ \A i \in 1..Len(oldRows) : oldRows[i].sheetType = "old"

\* an upload leaves the rows that were there in place and in order and puts
\* its own rows after them: one per sheet, so the row count grows by the
\* number of rows parsed whatever the table held
C27_Step ==
    /\ evHandleFile =>
          /\ IsPrefix(newRows, newRows') /\ Len(newRows') = Len(newRows) + 1
          /\ IsPrefix(oldRows, oldRows') /\ Len(oldRows') \in {Len(oldRows), Len(oldRows) + 1}
    /\ handleFile =>
          /\ IsPrefix(rows, rows') /\ Len(rows') = Len(rows) + 1

\* C27: a file upload is append-only on both tables (existing rows are kept
\* in place, the parsed rows come after them, nothing is deduplicated), and in
\* every reachable state every row of the new partition has origin "new" and
\* every row of the old partition has origin "old".
C27_AppendOnly == []C27_Tagged /\ [][C27_Step]_vars

\* the same two-sheet workbook has been uploaded twice: 2 rows in each partition,
\* equal but for their local ids
C27_Witness ==
    /\ route = EventsRoute
    /\ ops = 2
    /\ Len(newRows) = 2 /\ Len(oldRows) = 2
    /\ [newRows[1] EXCEPT !.__localId = 0] = [newRows[2] EXCEPT !.__localId = 0]
    /\ [oldRows[1] EXCEPT !.__localId = 0] = [oldRows[2] EXCEPT !.__localId = 0]

\* ------------------------------------------------------- match consistency
\* C28: in every reachable state of the events table each row has no matched
\* rule exactly when its tier is unmatched, and no score exactly when its tier
\* is unmatched.
C28_MatchConsistent ==
    \A r \in Range(newRows) \cup Range(oldRows) :
        /\ r.matchedRule = NoRule <=> r.matchStatus = "unmatched"
        /\ r.score = NoScore <=> r.matchStatus = "unmatched"

\* a draft has been loaded back that holds a row matched by the upload with a
\* low tier, next to a row of the other partition
C28_Witness ==
    /\ importResult.kind = "draft"
    /\ \E r \in Range(newRows) : r.matchStatus = "low" /\ r.score # NoScore
    /\ oldRows # <<>>

\* ------------------------------------------------------------ saved marks
\* the local ids of the rows marked saved in the partitions new and old
C29_Marked(new, old) == {r.__localId : r \in {q \in Range(new) \cup Range(old) : q._saved}}

\* C29: a Save All marks as saved only rows that were in the payload of its
\* POST /events, and marks none when the POST fails.
C29_Step ==
    saveEventsSettle =>
        C29_Marked(newRows', oldRows') \ C29_Marked(newRows, oldRows)
            \subseteq IF evServer' # evServer THEN {r.__localId : r \in Range(saveAll)} ELSE {}
C29_SavedOnlyIfPosted == [][C29_Step]_vars

\* ------------------------------------------------------------ row deletion
\* the field values of a row, its local id aside (a reload renews the local ids)
C30_Fields(r) == [r EXCEPT !.__localId = 0]

\* C30: deleting one rule row removes exactly that row; every other row, with
\* or without a server id, edited or not, is still in memory with the same
\* field values once the deletion, its reload included, is over.
C30_Step ==
    /\ deleteRow => \E i \in 1..Len(rows) : rows' \in {rows, RemoveRow(rows, rows[i].__localId)}
    /\ deleteSettle => rows' \in {rows, RemoveRow(rows, delTarget.lid)}
    /\ deleteReload =>
          \A i \in 1..Len(rows) :
              \E k \in 1..Len(rows') : C30_Fields(rows'[k]) = C30_Fields(rows[i])
C30_DeleteRemovesOneRow == [][C30_Step]_vars

=============================================================================
